---------------------------- MODULE Spec2Model ----------------------------
(***************************************************************************)
(* State-machine model of the pgpool-II supervisor (src/main/pgpool_main.c)*)
(*                                                                         *)
(*   - the request queue of node operation requests                        *)
(*     (register_node_operation_request / failover),                       *)
(*   - the failover engine's effect on backend status, quarantine, role,   *)
(*     primary_node_id and main_node_id,                                   *)
(*   - SIGUSR1 reasons and sigusr1_interupt_processor,                     *)
(*   - sync_backend_from_watchdog,                                         *)
(*   - the follow-primary lock (pool_acquire_follow_primary_lock /         *)
(*     pool_release_follow_primary_lock).                                  *)
(*                                                                         *)
(* Critical sections guarded by one semaphore are single actions; the code *)
(* between two critical sections is a separate action, so that every       *)
(* interleaving of processes at semaphore boundaries is explored.          *)
(***************************************************************************)
EXTENDS Integers, Sequences, FiniteSets, TLC

(***************************************************************************)
(* Bounds of the model                                                     *)
(***************************************************************************)
\* number of configured backends (pool_config->backend_desc->num_backends)
NUM_BACKENDS == 2
\* capacity of the request ring (MAX_REQUEST_QUEUE_SIZE, scaled down)
MAX_REQUEST_QUEUE_SIZE == 2
\* calls of register_node_operation_request in one behaviour of SpecQueue
MaxCalls == 4
\* calls of register_node_operation_request in one behaviour of Spec
MaxRequests == 1
\* watchdog notifications (SIGUSR1 with a watchdog reason) in one behaviour
MaxWdEvents == 1
\* local processes that use the follow-primary lock
NumLockProcs == 2
\* operations on the follow-primary lock in one behaviour
MaxLockOps == 5

Nodes == 0 .. (NUM_BACKENDS - 1)
Slots == 0 .. (MAX_REQUEST_QUEUE_SIZE - 1)
LockProcs == 1 .. NumLockProcs
\* the process that serves the lock requests of the remote watchdog leader
RemoteProc == NumLockProcs + 1
\* backends of one probe round of find_primary_node()
NumProbeNodes == 3
\* requests issued to the supervisor whose history is kept
MaxSeq == 2
\* requests issued to the supervisor that runs follow primary commands
MaxFollowSeq == 3
\* worker slots that are followed, and the requests issued to their supervisor
NumChildren == 2
\* probe rounds counted while no backend is valid
MaxIdleRounds == 2
\* SIGTERM / SIGINT / SIGQUIT deliveries to the supervisor
MaxSignals == 3
\* children that exit before reaper() runs
MaxZombies == 2
\* exits of children in one run
MaxExits == 2
MaxRestartSeq == 1
ProbeNodes == 0 .. (NumProbeNodes - 1)

(***************************************************************************)
(* Enumerations of the program                                             *)
(***************************************************************************)
BACKEND_STATUS == {"CON_UNUSED", "CON_CONNECT_WAIT", "CON_UP", "CON_DOWN"}
SERVER_ROLE == {"ROLE_MAIN", "ROLE_REPLICA", "ROLE_PRIMARY", "ROLE_STANDBY"}
POOL_REQUEST_KIND == {"NODE_UP_REQUEST", "NODE_DOWN_REQUEST",
                      "PROMOTE_NODE_REQUEST", "NODE_QUARANTINE_REQUEST",
                      "CLOSE_IDLE_REQUEST"}
User1SignalReason == {"SIG_FAILOVER_INTERRUPT", "SIG_WATCHDOG_STATE_CHANGED",
                      "SIG_BACKEND_SYNC_REQUIRED", "SIG_WATCHDOG_QUORUM_CHANGED"}
WdReasons == {"SIG_WATCHDOG_STATE_CHANGED", "SIG_BACKEND_SYNC_REQUIRED"}

\* a request slot as left by the zero-filled shared memory segment
EmptyRequest == [kind |-> "NONE", node_id |-> << >>, request_details |-> {}]

\* node id lists a producer passes: one node, or two distinct nodes
NodeIdSets == {<<i>> : i \in Nodes} \cup
              {s \in {<<i, j>> : i \in Nodes, j \in Nodes} : s[1] # s[2]}

\* the requests producers issue
Requests ==
    {[kind |-> "CLOSE_IDLE_REQUEST", node_id |-> << >>, request_details |-> {}]}
    \cup {[kind |-> "NODE_UP_REQUEST", node_id |-> <<i>>, request_details |-> d] :
            i \in Nodes, d \in {{}, {"REQ_DETAIL_UPDATE"}}}
    \cup {[kind |-> "NODE_DOWN_REQUEST", node_id |-> s, request_details |-> {}] :
            s \in NodeIdSets}
    \cup {[kind |-> "NODE_QUARANTINE_REQUEST", node_id |-> <<i>>, request_details |-> {}] :
            i \in Nodes}
    \cup {[kind |-> "PROMOTE_NODE_REQUEST", node_id |-> <<i>>, request_details |-> {}] :
            i \in Nodes}

VARIABLES
    \* ---- shared memory: backend descriptors
    backend_status,     \* BACKEND_INFO(i).backend_status
    quarantine,         \* BACKEND_INFO(i).quarantine
    role,               \* BACKEND_INFO(i).role
    \* ---- shared memory: Req_info
    primary_node_id,    \* Req_info->primary_node_id
    main_node_id,       \* Req_info->main_node_id
    request_queue_head, \* Req_info->request_queue_head
    request_queue_tail, \* Req_info->request_queue_tail
    request,            \* Req_info->request[]
    Req_switching,      \* Req_info->switching
    follow_primary_count,               \* Req_info->follow_primary_count
    follow_primary_lock_held_remotely,  \* Req_info->follow_primary_lock_held_remotely
    follow_primary_lock_pending,        \* Req_info->follow_primary_lock_pending
    \* ---- shared memory: user1SignalSlot
    signalFlags,        \* user1SignalSlot->signalFlags[]
    \* ---- configuration
    SL_MODE,            \* streaming (or logical) replication mode
    use_watchdog,       \* pool_config->use_watchdog
    follow_primary_command, \* pool_config->follow_primary_command is not empty
    \* ---- environment of one behaviour
    req_domain,         \* the requests the producers issue
    calls_left,         \* calls of register_node_operation_request still to come
    wd_left,            \* watchdog notifications still to come
    \* ---- supervisor (main process) private state
    processState,       \* INITIALIZING / SLEEPING
    pc,                 \* position of the main process
    switching,          \* static volatile sig_atomic_t switching
    sigusr1_request,    \* static volatile sig_atomic_t sigusr1_request
    cur,                \* failover(): local copy of the dequeued request
    new_primary,        \* failover(): new_primary (function scope)
    nodes,              \* failover(): nodes[] (function scope)
    new_main_node,      \* failover(): new_main_node (function scope)
    \* ---- producers and bookkeeping of the history
    to_signal,          \* producers between semaphore unlock and signalling
    request_tag,        \* per slot: sequence number and the switching value read
    enq_count,          \* successful enqueues so far
    deq_log,            \* sequence numbers in the order failover() dequeued
    reg_result,         \* return value of the last call
    \* ---- processes using the follow-primary lock
    lpc,                \* per local process: idle / sleeping / holding
    lock_ops,           \* lock operations so far
    last_op,            \* the last lock operation and its result
    \* ---- one probe round of find_primary_node()
    probe_answer,       \* per backend: pg_is_in_recovery() "t" / "f" / "none"
    wal_upstream,       \* per standby: backend its wal receiver streams from
    detach_false_primary,   \* pool_config->detach_false_primary
    check_connectivity, \* some valid backend is a 9.6 or later server
    pool_node_status,   \* static POOL_NODE_STATUS pool_node_status[]
    probe_primary,      \* find_primary_node(): primary (the return value)
    vpc,                \* position within the probe round
    \* ---- status persistence
    status_file,        \* <logdir>/pgpool_status: exists, one line per backend
    discard_status,     \* command line option -D
    written_status,     \* the vector write_status_file() wrote last
    spc,                \* position within write / restart
    \* ---- primary finder, follow-primary child
    search_primary_node_timeout,    \* pool_config->search_primary_node_timeout
    follow_primary_ongoing,         \* Req_info->follow_primary_ongoing
    follow_waiting,     \* follow-primary children waiting for the lock
    idle_rounds,        \* probe rounds run while no backend was valid
    \* ---- query workers
    children,           \* worker slots [0, num_init_children) that are followed
    con_lb,             \* per slot: load_balancing_node of its connected pools
    process_info,       \* process_info[i].pid, .need_to_restart
    need_to_restart_children,   \* failover(): need_to_restart_children
    partial_restart,    \* failover(): partial_restart
    \* ---- history of the processed requests
    hist_depth,         \* number of requests the history keeps
    hist,               \* the last requests failover() processed
    \* ---- shutdown of the supervisor
    exiting,            \* static volatile sig_atomic_t exiting
    exit_sem,           \* MAIN_EXIT_HANDLER_SEM: 1 free, 0 taken
    exit_stack,         \* running invocations of exit_handler, innermost last
    exit_log,           \* "exiting" per exiting = 1, the caller per
                        \* terminate_all_childrens(), "exit" at exit(0)
    exit_signals,       \* SIGTERM / SIGINT / SIGQUIT delivered so far
    \* ---- children of the supervisor other than the query workers
    reap                \* .pid: pcp_pid, worker_pid, pgpool_logger_pid,
                        \* watchdog_pid, wd_lifecheck_pid; .hc:
                        \* health_check_pids[]; .zombies: exited children
                        \* not yet waited for; .log: what reaper() did

backendVars == <<backend_status, quarantine, role, primary_node_id, main_node_id>>
queueVars == <<request_queue_head, request_queue_tail, request, Req_switching>>
lockVars == <<follow_primary_count, follow_primary_lock_held_remotely,
              follow_primary_lock_pending, lpc, lock_ops, last_op>>
probeVars == <<probe_answer, wal_upstream, detach_false_primary,
               check_connectivity, pool_node_status, probe_primary, vpc>>
exitVars == <<exiting, exit_sem, exit_stack, exit_log, exit_signals, reap>>
fileVars == <<status_file, discard_status, written_status, spc>>
baseConf == <<SL_MODE, use_watchdog, follow_primary_command, req_domain,
              search_primary_node_timeout, children, con_lb, hist_depth>>
\* what no step of the supervisor changes
staticVars == <<baseConf, exitVars, probeVars, discard_status, written_status, spc>>
workerVars == <<process_info, need_to_restart_children, partial_restart>>
followVars == <<follow_primary_ongoing, follow_waiting>>
logVars == <<hist, idle_rounds>>
confVars == <<baseConf, exitVars, probeVars, fileVars, workerVars, followVars, logVars>>
mainVars == <<processState, pc, switching, sigusr1_request, cur, new_primary,
              nodes, new_main_node>>
histVars == <<to_signal, request_tag, enq_count, deq_log, calls_left,
              reg_result, wd_left>>
vars == <<backendVars, queueVars, lockVars, confVars, mainVars, histVars,
          signalFlags>>


(***************************************************************************)
(* Helpers on the backend table                                            *)
(***************************************************************************)
\* VALID_BACKEND in the main process: status CONNECT_WAIT or UP, not quarantined
VALID_BACKEND(st, qr, i) ==
    /\ st[i] \in {"CON_CONNECT_WAIT", "CON_UP"}
    /\ ~qr[i]

\* get_next_main_node() without the final "if (i == num_backends) i = -1"
get_next_main_node_no_reset(st, qr) ==
    IF \E i \in Nodes : VALID_BACKEND(st, qr, i)
    THEN CHOOSE i \in Nodes :
            /\ VALID_BACKEND(st, qr, i)
            /\ \A j \in Nodes : VALID_BACKEND(st, qr, j) => i <= j
    ELSE NUM_BACKENDS

\* get_next_main_node(): the lowest valid backend, -1 if there is none
get_next_main_node(st, qr) ==
    IF \E i \in Nodes : VALID_BACKEND(st, qr, i)
    THEN CHOOSE i \in Nodes :
            /\ VALID_BACKEND(st, qr, i)
            /\ \A j \in Nodes : VALID_BACKEND(st, qr, j) => i <= j
    ELSE -1

\* check_all_backend_down()
check_all_backend_down(st) ==
    \A i \in Nodes : st[i] \in {"CON_DOWN", "CON_UNUSED"}

(***************************************************************************)
(* The request ring                                                        *)
(***************************************************************************)
\* a full test that is off by one and admits one request too many
QueueFullOffByOne(head, tail) == (tail - MAX_REQUEST_QUEUE_SIZE) = head + 1

\* the full test of register_node_operation_request
QueueFull(head, tail) == (tail - MAX_REQUEST_QUEUE_SIZE) = head

\* an empty test that already succeeds with one request left
QueueEmptyOffByOne(head, tail) == tail - head <= 1

\* the empty test of failover()
QueueEmpty(head, tail) == tail = head

\* a slot computation that never uses the last slot of the ring
QueueIndexOffByOne(n) == n % (MAX_REQUEST_QUEUE_SIZE - 1)

\* slot of a head/tail counter
QueueIndex(n) == n % MAX_REQUEST_QUEUE_SIZE

\* a producer that acts on the negation of the switching value
ReadSwitchingInverted(sw) == ~sw

\* the switching value a producer acts on after the enqueue
ReadSwitching(sw) == sw

(***************************************************************************)
(* Status persistence: write_status_file() and read_status_file()          *)
(* (the file operations are taken to succeed)                              *)
(***************************************************************************)
NoStatusFile == [exists |-> FALSE, line |-> [i \in Nodes |-> "unused"]]

\* the line write_status_file() prints for one backend
StatusLineAlwaysUp(b) == "up"

StatusLine(b) ==
    IF b \in {"CON_UP", "CON_CONNECT_WAIT"} THEN "up"
    ELSE IF b = "CON_DOWN" THEN "down"
    ELSE "unused"

\* write_status_file(): nothing is written when every backend is CON_DOWN
WriteSkipped(st) == \A i \in Nodes : st[i] = "CON_DOWN"

\* write_status_file() that leaves the file as it is
write_status_file_keeps(st, file) == file

write_status_file(st, file) ==
    IF WriteSkipped(st) THEN file
    ELSE [exists |-> TRUE, line |-> [i \in Nodes |-> StatusLine(st[i])]]

\* the status read_status_file() stores for one line of the ascii file
LineStatusWaits(l) ==
    IF l = "up" THEN "CON_CONNECT_WAIT"
    ELSE IF l = "down" THEN "CON_DOWN"
    ELSE "CON_UNUSED"

LineStatus(l) ==
    IF l = "up" THEN "CON_UP"
    ELSE IF l = "down" THEN "CON_DOWN"
    ELSE "CON_UNUSED"

\* read_status_file(): the backends start as configured (CON_CONNECT_WAIT) when
\* there is no file or it is discarded; a file without any "up" line is bogus
\* and every backend becomes CON_CONNECT_WAIT, which is written back
read_status_file(file, discard) ==
    LET configured == [i \in Nodes |-> "CON_CONNECT_WAIT"]
        loaded == [i \in Nodes |-> LineStatus(file.line[i])]
        someone_wakeup == \E i \in Nodes : file.line[i] = "up"
    IN  IF ~file.exists THEN [st |-> configured, file |-> file]
        ELSE IF discard THEN [st |-> configured, file |-> NoStatusFile]
        ELSE IF someone_wakeup THEN [st |-> loaded, file |-> file]
        ELSE [st |-> configured,
              file |-> write_status_file(configured, file)]

(***************************************************************************)
(* Initial state: after read_status_file() and                             *)
(* initialize_shared_mem_objects()                                         *)
(***************************************************************************)
\* status vectors read_status_file() leaves: the file's up/down entries with
\* at least one "up", or CONNECT_WAIT everywhere
InitialStatus ==
    {st \in [Nodes -> {"CON_UP", "CON_DOWN"}] : \E i \in Nodes : st[i] = "CON_UP"}
    \cup {[i \in Nodes |-> "CON_CONNECT_WAIT"]}

InitShared(st) ==
    /\ backend_status = st
    /\ quarantine = [i \in Nodes |-> FALSE]
    /\ role = [i \in Nodes |-> "ROLE_MAIN"]
    /\ main_node_id = get_next_main_node(st, [i \in Nodes |-> FALSE])
    /\ Req_switching = FALSE
    /\ request_queue_head = -1
    /\ request_queue_tail = -1
    /\ primary_node_id = -2
    /\ request = [i \in Slots |-> EmptyRequest]
    /\ follow_primary_count = 0
    /\ follow_primary_lock_held_remotely = FALSE
    /\ follow_primary_lock_pending = FALSE
    /\ signalFlags = [r \in User1SignalReason |-> FALSE]
    /\ follow_primary_ongoing = FALSE

InitPrivate ==
    /\ processState = "INITIALIZING"
    /\ switching = FALSE
    /\ sigusr1_request = FALSE
    /\ cur = EmptyRequest
    /\ new_primary = -1
    /\ nodes = [i \in Nodes |-> FALSE]
    /\ new_main_node = -1
    /\ to_signal = 0
    /\ request_tag = [i \in Slots |-> [seq |-> 0, fip |-> FALSE]]
    /\ enq_count = 0
    /\ deq_log = << >>
    /\ reg_result = "none"
    /\ lpc = [p \in LockProcs \cup {RemoteProc} |-> "idle"]
    /\ lock_ops = 0
    /\ last_op = [op |-> "none", proc |-> 0, block |-> FALSE,
                  remote_request |-> FALSE, result |-> "none"]
    /\ need_to_restart_children = TRUE
    /\ partial_restart = FALSE
    /\ follow_waiting = 0
    /\ idle_rounds = 0
    /\ hist = << >>
    /\ exiting = 0
    /\ exit_sem = 1
    /\ exit_stack = << >>
    /\ exit_log = << >>
    /\ exit_signals = 0

\* the children PgpoolMain forks before its main loop; hc: the health-check
\* workers, all 0 where they are not followed
InitChildren(hc) ==
    reap = [pid |-> [k \in {"pcp", "worker", "logger"} |-> 1] @@
                    [k \in {"watchdog", "lifecheck"} |->
                        IF use_watchdog THEN 1 ELSE 0],
            hc |-> hc, zombies |-> << >>, log |-> << >>]

\* no probe round is modelled step by step
NoProbe ==
    /\ probe_answer = [i \in ProbeNodes |-> "none"]
    /\ wal_upstream = [i \in ProbeNodes |-> -1]
    /\ detach_false_primary = FALSE
    /\ check_connectivity = FALSE
    /\ pool_node_status = [i \in ProbeNodes |-> "POOL_NODE_STATUS_UNUSED"]
    /\ probe_primary = -1
    /\ vpc = "off"

\* the first start of the supervisor: there is no status file yet
NoFile ==
    /\ status_file = [exists |-> FALSE, line |-> [i \in Nodes |-> "unused"]]
    /\ discard_status = FALSE
    /\ written_status = [done |-> FALSE, st |-> [i \in Nodes |-> "CON_UNUSED"]]
    /\ spc = "off"

\* the query workers are not followed
NoWorkers ==
    /\ children = {}
    /\ con_lb = << >>
    /\ process_info = << >>

\* the supervisor with the watchdog enabled, in any replication mode
Init ==
    /\ \E st \in InitialStatus : InitShared(st)
    /\ SL_MODE \in BOOLEAN
    /\ use_watchdog = TRUE
    /\ follow_primary_command \in BOOLEAN
    /\ req_domain = Requests
    /\ calls_left = MaxRequests
    /\ wd_left = MaxWdEvents
    /\ pc = "wd_init"
    /\ InitPrivate
    /\ InitChildren([i \in Nodes |-> 0])
    /\ NoProbe
    /\ NoFile
    /\ NoWorkers
    /\ search_primary_node_timeout = 1
    /\ hist_depth = 0

\* requests used to exercise the ring: their payload does not matter to it
QueueRequests ==
    {r \in Requests : /\ r.kind \in {"CLOSE_IDLE_REQUEST", "NODE_UP_REQUEST",
                                      "NODE_DOWN_REQUEST"}
                      /\ r.request_details = {}
                      /\ r.node_id \in {<< >>, <<0>>}}

\* the supervisor without watchdog in streaming replication mode
InitQueue ==
    /\ InitShared([i \in Nodes |-> "CON_CONNECT_WAIT"])
    /\ SL_MODE = TRUE
    /\ use_watchdog = FALSE
    /\ follow_primary_command = FALSE
    /\ req_domain = QueueRequests
    /\ calls_left = MaxCalls
    /\ wd_left = 0
    /\ pc = "startup_search"
    /\ InitPrivate
    /\ InitChildren([i \in Nodes |-> 0])
    /\ NoProbe
    /\ NoFile
    /\ NoWorkers
    /\ search_primary_node_timeout = 1
    /\ hist_depth = 0

(***************************************************************************)
(* Producers (any process)                                                 *)
(***************************************************************************)
\* register_node_operation_request(): the critical section under
\* REQUEST_INFO_SEM; the caller signals the supervisor afterwards when it read
\* switching == false
register_node_operation_request(req) ==
    /\ calls_left > 0
    /\ calls_left' = calls_left - 1
    /\ IF QueueFull(request_queue_head, request_queue_tail)
       THEN /\ reg_result' = "false"
            /\ UNCHANGED <<request_queue_tail, request, request_tag, enq_count,
                           to_signal>>
       ELSE LET tail == request_queue_tail + 1
                index == QueueIndex(tail)
                failover_in_progress == ReadSwitching(Req_switching)
            IN  /\ request_queue_tail' = tail
                /\ request' = [request EXCEPT ![index] = req]
                /\ request_tag' = [request_tag EXCEPT
                                     ![index] = [seq |-> enq_count + 1,
                                                 fip |-> failover_in_progress]]
                /\ enq_count' = enq_count + 1
                /\ to_signal' = IF failover_in_progress THEN to_signal
                                ELSE to_signal + 1
                /\ reg_result' = "true"
    /\ UNCHANGED <<request_queue_head, Req_switching, backendVars, lockVars,
                   confVars, mainVars, deq_log, wd_left, signalFlags>>

Register == \E req \in req_domain : register_node_operation_request(req)

\* the flag is set and SIGUSR1 is not delivered
signal_user1_flag_only ==
    /\ to_signal > 0
    /\ to_signal' = to_signal - 1
    /\ signalFlags' = [signalFlags EXCEPT !["SIG_FAILOVER_INTERRUPT"] = TRUE]
    /\ UNCHANGED <<backendVars, queueVars, lockVars, confVars, processState, pc,
                   switching, sigusr1_request, cur, new_primary, nodes,
                   new_main_node, request_tag, enq_count, deq_log, calls_left,
                   reg_result, wd_left>>

\* signal_user1_to_parent_with_reason(SIG_FAILOVER_INTERRUPT) by a producer
\* that read switching == false, and the delivery of SIGUSR1 (sigusr1_handler)
signal_user1_to_parent_with_reason ==
    /\ to_signal > 0
    /\ to_signal' = to_signal - 1
    /\ signalFlags' = [signalFlags EXCEPT !["SIG_FAILOVER_INTERRUPT"] = TRUE]
    /\ sigusr1_request' = TRUE
    /\ UNCHANGED <<backendVars, queueVars, lockVars, confVars, processState, pc,
                   switching, cur, new_primary, nodes, new_main_node,
                   request_tag, enq_count, deq_log, calls_left, reg_result,
                   wd_left>>

\* the watchdog process notifies the supervisor
\* (register_watchdog_state_change_interupt,
\*  register_backend_state_sync_req_interupt)
WatchdogNotify ==
    /\ use_watchdog
    /\ wd_left > 0
    /\ wd_left' = wd_left - 1
    /\ \E r \in WdReasons : signalFlags' = [signalFlags EXCEPT ![r] = TRUE]
    /\ sigusr1_request' = TRUE
    /\ UNCHANGED <<backendVars, queueVars, lockVars, confVars, processState, pc,
                   switching, cur, new_primary, nodes, new_main_node,
                   to_signal, request_tag, enq_count, deq_log, calls_left,
                   reg_result>>

\* register_watchdog_quorum_change_interupt(), called by the watchdog child
WatchdogQuorumChanged ==
    /\ use_watchdog
    /\ wd_left > 0
    /\ wd_left' = wd_left - 1
    /\ signalFlags' = [signalFlags EXCEPT !["SIG_WATCHDOG_QUORUM_CHANGED"] = TRUE]
    /\ sigusr1_request' = TRUE
    /\ UNCHANGED <<backendVars, queueVars, lockVars, confVars, processState, pc,
                   switching, cur, new_primary, nodes, new_main_node,
                   to_signal, request_tag, enq_count, deq_log, calls_left,
                   reg_result>>

(***************************************************************************)
(* The follow-primary lock                                                 *)
(***************************************************************************)
LockState == [count |-> follow_primary_count,
              held_remotely |-> follow_primary_lock_held_remotely,
              pending |-> follow_primary_lock_pending]

\* pool_acquire_follow_primary_lock() with the free test "count <= 1"
acquire_lock_free_test_off_by_one(L, block, remote_request) ==
    [lock |-> [L EXCEPT !.held_remotely = remote_request, !.count = 1],
     result |-> "acquired"]

\* pool_acquire_follow_primary_lock() that tests block before remote_request,
\* so that a blocking remote request sleeps
acquire_lock_remote_blocks(L, block, remote_request) ==
    IF L.count <= 0
    THEN [lock |-> [L EXCEPT !.held_remotely = remote_request, !.count = 1],
          result |-> "acquired"]
    ELSE IF ~block
    THEN [lock |-> IF remote_request /\ ~L.held_remotely
                   THEN [L EXCEPT !.pending = TRUE] ELSE L,
          result |-> "refused"]
    ELSE [lock |-> L, result |-> "sleep"]

\* one pass of the loop of pool_acquire_follow_primary_lock() under
\* FOLLOW_PRIMARY_SEM: the lock is taken, the call returns false, or the caller
\* leaves the semaphore and sleeps one second before the next pass
pool_acquire_follow_primary_lock(L, block, remote_request) ==
    IF L.count <= 0
    THEN [lock |-> [L EXCEPT !.held_remotely = remote_request, !.count = 1],
          result |-> "acquired"]
    ELSE IF remote_request
    THEN [lock |-> IF L.held_remotely THEN L ELSE [L EXCEPT !.pending = TRUE],
          result |-> "refused"]
    ELSE IF ~block
    THEN [lock |-> L, result |-> "refused"]
    ELSE [lock |-> L, result |-> "sleep"]

\* pool_release_follow_primary_lock() whose local branch ignores the pending
\* remote request
release_lock_ignores_pending(L, remote_request) ==
    IF remote_request
    THEN IF L.held_remotely
         THEN [L EXCEPT !.count = 0, !.held_remotely = FALSE, !.pending = FALSE]
         ELSE [L EXCEPT !.pending = FALSE]
    ELSE [L EXCEPT !.count = 0, !.held_remotely = FALSE]

\* pool_release_follow_primary_lock() whose remote branch frees the lock
\* whoever holds it
release_lock_remote_frees_any(L, remote_request) ==
    IF remote_request
    THEN [L EXCEPT !.count = 0, !.held_remotely = FALSE, !.pending = FALSE]
    ELSE IF L.pending
         THEN [L EXCEPT !.held_remotely = TRUE, !.count = 1, !.pending = FALSE]
         ELSE [L EXCEPT !.count = 0, !.held_remotely = FALSE]

\* pool_release_follow_primary_lock() whose remote branch resets the count of a
\* remotely held lock and leaves follow_primary_lock_held_remotely set
release_lock_remote_keeps_flag(L, remote_request) ==
    IF remote_request
    THEN IF L.held_remotely
         THEN [L EXCEPT !.count = 0, !.pending = FALSE]
         ELSE [L EXCEPT !.pending = FALSE]
    ELSE IF L.pending
         THEN [L EXCEPT !.held_remotely = TRUE, !.count = 1, !.pending = FALSE]
         ELSE [L EXCEPT !.count = 0, !.held_remotely = FALSE]

\* pool_release_follow_primary_lock() under FOLLOW_PRIMARY_SEM
pool_release_follow_primary_lock(L, remote_request) ==
    IF remote_request
    THEN IF L.held_remotely
         THEN [L EXCEPT !.count = 0, !.held_remotely = FALSE, !.pending = FALSE]
         ELSE [L EXCEPT !.pending = FALSE]
    ELSE IF L.pending
         THEN [L EXCEPT !.held_remotely = TRUE, !.count = 1, !.pending = FALSE]
         ELSE [L EXCEPT !.count = 0, !.held_remotely = FALSE]

SetLock(L) ==
    /\ follow_primary_count' = L.count
    /\ follow_primary_lock_held_remotely' = L.held_remotely
    /\ follow_primary_lock_pending' = L.pending

(***************************************************************************)
(* sync_backend_from_watchdog                                              *)
(***************************************************************************)
Backend == [st |-> backend_status, qr |-> quarantine, role |-> role,
            prim |-> primary_node_id, main |-> main_node_id]

SetBackend(B) ==
    /\ backend_status' = B.st
    /\ quarantine' = B.qr
    /\ role' = B.role
    /\ primary_node_id' = B.prim
    /\ main_node_id' = B.main

\* what get_pg_backend_status_from_leader_wd_node() returns for NUM_BACKENDS
\* nodes: a status per backend and the leader's primary_node_id
LeaderReports ==
    [wd : {"report"},
     backend_status : [Nodes -> {"CON_UP", "CON_DOWN"}],
     primary_node_id : -2 .. (NUM_BACKENDS - 1)]

\* only a backend that is DOWN locally is set to CONNECT_WAIT
SyncStatusOnlyFromDown(local, leader) ==
    IF leader = "CON_DOWN"
    THEN "CON_DOWN"
    ELSE IF leader \in {"CON_CONNECT_WAIT", "CON_UP"} /\ local = "CON_DOWN"
    THEN "CON_CONNECT_WAIT"
    ELSE local

\* reconciliation of one backend status with the leader's
SyncStatus(local, leader) ==
    IF leader = "CON_DOWN"
    THEN "CON_DOWN"
    ELSE IF leader \in {"CON_CONNECT_WAIT", "CON_UP"}
    THEN "CON_CONNECT_WAIT"
    ELSE local

\* the leader's primary is adopted whenever it differs
SyncPrimaryAlwaysAdopts(sl, prim, st, leaderPrim) ==
    IF sl /\ prim # leaderPrim THEN leaderPrim ELSE prim

\* the leader's primary is adopted unless it is -1 while the local primary is alive
SyncPrimary(sl, prim, st, leaderPrim) ==
    IF sl /\ prim # leaderPrim
    THEN IF prim >= 0 /\ leaderPrim = -1 /\ st[prim] # "CON_DOWN"
         THEN prim
         ELSE leaderPrim
    ELSE prim

STREAM == SL_MODE

\* a slot has a connected pool entry whose load_balancing_node is node_id
UsesNode(c, node_id) == node_id \in con_lb[c]

\* fork_a_child() gives the slot the pid of a new process
NewPid(pid) == IF pid = 1 THEN 2 ELSE 1

\* the history keeps the last hist_depth requests
PushHist(h, rec) ==
    IF hist_depth = 0 THEN h
    ELSE IF Len(h) >= hist_depth THEN Append(Tail(h), rec)
    ELSE Append(h, rec)

\* sync_backend_from_watchdog() on the backend table B; a report without data
\* stands for the early returns (no report, or this node is the leader)
sync_backend_from_watchdog(B, report) ==
    IF report.wd # "report"
    THEN B
    ELSE LET st1 == [i \in Nodes |-> SyncStatus(B.st[i], report.backend_status[i])]
             qr1 == [i \in Nodes |-> FALSE]
             reload_maste_node_id == st1 # B.st
         IN  [st |-> st1,
              qr |-> qr1,
              role |-> B.role,
              prim |-> SyncPrimary(SL_MODE, B.prim, st1, report.primary_node_id),
              main |-> IF reload_maste_node_id
                       THEN get_next_main_node(st1, qr1)
                       ELSE B.main]

\* sync_backend_from_watchdog(): "Decide if All or subset of the Pgpool-II
\* children needs immidiate restart", for the table B before and B1 after the
\* reconciliation; down is down_node_ids[]
SyncRestartDecision(B, B1) ==
    LET down == {i \in Nodes : B.st[i] # "CON_DOWN" /\ B1.st[i] = "CON_DOWN"}
        node_status_was_changed_to_up ==
            \E i \in Nodes : B.st[i] = "CON_DOWN" /\ B1.st[i] # "CON_DOWN"
        primary_changed == B1.prim # B.prim
    IN  IF ~node_status_was_changed_to_up /\ down = {} /\ ~primary_changed
        THEN [ret |-> TRUE, need |-> FALSE, partial |-> FALSE, down |-> down]
        ELSE IF ~STREAM \/ primary_changed
        THEN [ret |-> FALSE, need |-> TRUE, partial |-> FALSE, down |-> down]
        ELSE IF down = {}
        THEN [ret |-> FALSE, need |-> FALSE, partial |-> FALSE, down |-> down]
        ELSE [ret |-> FALSE, need |-> TRUE,
              partial |-> ~check_all_backend_down(B1.st), down |-> down]

\* sync_backend_from_watchdog(): "Kill children and restart them if needed";
\* nothing is done while the supervisor is INITIALIZING or when nothing changed
SyncRestartChildren(B, B1, report, pinfo) ==
    LET D == SyncRestartDecision(B, B1) IN
    IF report.wd # "report" \/ processState = "INITIALIZING" \/ D.ret
    THEN pinfo
    ELSE [c \in children |->
            IF D.need /\ (D.partial => \E n \in D.down : UsesNode(c, n))
            THEN IF pinfo[c].pid # 0
                 THEN [pinfo[c] EXCEPT !.pid = NewPid(@)]
                 ELSE pinfo[c]
            ELSE [pinfo[c] EXCEPT !.need_to_restart = TRUE]]

\* one call of sync_backend_from_watchdog() that got a report, as kept in the
\* history
SyncRecord(B, B1, report, pinfo, pinfo1) ==
    [req |-> [kind |-> IF "send_failback_request" \in DOMAIN report
                       THEN "QUORUM" ELSE "SYNC",
              node_id |-> << >>, request_details |-> {},
              report |-> report, processState |-> processState],
     before |-> B, pids |-> pinfo, finder |-> "none", found |-> -2,
     failback |-> FALSE, failover_cmd |-> {}, follow_forked |-> FALSE,
     killed |-> {c \in children : pinfo1[c].pid # pinfo[c].pid},
     forked |-> {c \in children : pinfo1[c].pid # pinfo[c].pid},
     need |-> SyncRestartDecision(B, B1).need,
     partial |-> SyncRestartDecision(B, B1).partial,
     after |-> B1, workers |-> pinfo1, done |-> TRUE]

(***************************************************************************)
(* sigusr1_interupt_processor                                              *)
(***************************************************************************)
\* outcomes of one watchdog reason: local node is not WD_STANDBY, or it is and
\* the sync returns early, or it is and the leader reports
WdOutcomes(flag) ==
    IF flag THEN {[wd |-> "not_standby"], [wd |-> "none"]} \cup LeaderReports
    ELSE {[wd |-> "skip"]}

\* outcomes of SIG_WATCHDOG_QUORUM_CHANGED: the watchdog holds no quorum, or
\* it does and the local node has the state wd_state
QuorumOutcomes(flag) ==
    IF flag
    THEN {[wd |-> "no_quorum"]} \cup
         {[wd |-> "quorum", wd_state |-> w] : w \in {"WD_COORDINATOR", "WD_STANDBY"}}
    ELSE {[wd |-> "skip"]}

\* every failback request made by update_backend_quarantine_status() is
\* accepted as a follower's request is
FailbackEveryQuarantined(B, wd_state) ==
    {i \in Nodes : B.qr[i] /\ B.st[i] = "CON_DOWN"}

\* update_backend_quarantine_status(): the backends for which
\* send_failback_request(i, false, REQ_DETAIL_UPDATE | REQ_DETAIL_WATCHDOG) is
\* called
update_backend_quarantine_status(B, wd_state) ==
    IF wd_state = "WD_COORDINATOR"
    THEN {i \in Nodes : B.qr[i] /\ B.st[i] = "CON_DOWN"}
    ELSE {}

SyncIfStandby(B, outcome) ==
    IF outcome.wd \in {"skip", "not_standby"} THEN B
    ELSE sync_backend_from_watchdog(B, outcome)

\* the history after one watchdog reason was served; a request failover() is
\* still processing stays the last entry
SyncHist(h, B, B1, outcome, pinfo, pinfo1) ==
    IF outcome.wd # "report" THEN h
    ELSE IF h # << >> /\ ~h[Len(h)].done
    THEN LET kept == Append(PushHist(SubSeq(h, 1, Len(h) - 1),
                                     SyncRecord(B, B1, outcome, pinfo, pinfo1)),
                            h[Len(h)])
         IN  IF Len(kept) > hist_depth THEN Tail(kept) ELSE kept
    ELSE PushHist(h, SyncRecord(B, B1, outcome, pinfo, pinfo1))

\* the history after SIG_WATCHDOG_QUORUM_CHANGED was served with quorum
QuorumHist(h, B, outcome, pinfo) ==
    IF outcome.wd # "quorum" THEN h
    ELSE SyncHist(h, B, B,
                  [wd |-> "report", quorum |-> TRUE, wd_state |-> outcome.wd_state,
                   send_failback_request |->
                       update_backend_quarantine_status(B, outcome.wd_state)],
                  pinfo, pinfo)

\* the body of sigusr1_interupt_processor() up to the call of failover():
\* every flag found set is cleared, the watchdog reasons are served
sigusr1_interupt_processor ==
    /\ sigusr1_request
    /\ sigusr1_request' = FALSE
    /\ signalFlags' = [r \in User1SignalReason |-> FALSE]
    /\ \E o0 \in QuorumOutcomes(signalFlags["SIG_WATCHDOG_QUORUM_CHANGED"]),
          o1 \in WdOutcomes(signalFlags["SIG_BACKEND_SYNC_REQUIRED"]),
          o2 \in WdOutcomes(signalFlags["SIG_WATCHDOG_STATE_CHANGED"]) :
          LET B1 == SyncIfStandby(Backend, o1)
              P1 == SyncRestartChildren(Backend, B1, o1, process_info)
              B2 == SyncIfStandby(B1, o2)
              P2 == SyncRestartChildren(B1, B2, o2, P1)
          IN
          /\ SetBackend(B2)
          /\ process_info' = P2
          /\ hist' = SyncHist(SyncHist(QuorumHist(hist, Backend, o0, process_info),
                                       Backend, B1, o1, process_info, P1),
                              B1, B2, o2, P1, P2)
          /\ IF o2.wd \in {"skip", "not_standby"}
             THEN UNCHANGED <<follow_primary_count,
                              follow_primary_lock_held_remotely,
                              follow_primary_lock_pending>>
             ELSE SetLock(pool_release_follow_primary_lock(LockState, TRUE))
    /\ UNCHANGED <<request_queue_head, request_queue_tail, request, baseConf, exitVars,
                   probeVars, fileVars, need_to_restart_children,
                   partial_restart, followVars, idle_rounds,
                   cur, histVars, lpc, lock_ops, last_op>>

\* failover() is entered from sigusr1_interupt_processor()
FailoverCalled ==
    /\ signalFlags["SIG_FAILOVER_INTERRUPT"]
    /\ processState # "INITIALIZING"
    /\ ~switching

\* entry of failover(): Req_info->switching = true; switching = 1
FailoverEnter ==
    /\ Req_switching' = TRUE
    /\ switching' = TRUE
    /\ new_primary' = -1
    /\ nodes' = [i \in Nodes |-> FALSE]
    /\ new_main_node' = -1
    /\ pc' = "drain"

\* CHECK_REQUEST while waiting for the watchdog at startup (INITIALIZING)
CheckRequestWdInit ==
    /\ pc = "wd_init"
    /\ sigusr1_interupt_processor
    /\ pc' = "startup_search"
    /\ UNCHANGED <<Req_switching, switching, processState, new_primary, nodes,
                   new_main_node>>

\* the watchdog child reports that it is initialised
WatchdogReady ==
    /\ pc = "wd_init"
    /\ ~sigusr1_request
    /\ signalFlags' = [signalFlags EXCEPT !["SIG_WATCHDOG_STATE_CHANGED"] = TRUE]
    /\ sigusr1_request' = TRUE
    /\ UNCHANGED <<backendVars, queueVars, lockVars, confVars, processState, pc,
                   switching, cur, new_primary, nodes, new_main_node, histVars>>

\* CHECK_REQUEST run by pool_sleep() inside find_primary_node_repeatedly(),
\* during startup or inside a drain: failover() is not entered, or returns at
\* once because switching is set
CheckRequestNested ==
    /\ pc \in {"startup_probe", "search"}
    /\ sigusr1_interupt_processor
    /\ UNCHANGED <<Req_switching, switching, processState, pc, new_primary,
                   nodes, new_main_node>>

\* the first CHECK_REQUEST of the main loop, still INITIALIZING; afterwards
\* processState = SLEEPING
FirstCheckRequest ==
    /\ pc = "first_check"
    /\ IF sigusr1_request
       THEN sigusr1_interupt_processor
       ELSE UNCHANGED <<sigusr1_request, signalFlags, backendVars, lockVars,
                        request_queue_head, request_queue_tail, request,
                        confVars, cur, histVars>>
    /\ processState' = "SLEEPING"
    /\ pc' = "sleeping"
    /\ UNCHANGED <<Req_switching, switching, new_primary, nodes, new_main_node>>

\* CHECK_REQUEST of the main loop
CheckRequest ==
    /\ pc = "sleeping"
    /\ sigusr1_interupt_processor
    /\ IF FailoverCalled
       THEN FailoverEnter
       ELSE UNCHANGED <<Req_switching, switching, new_primary, nodes,
                        new_main_node, pc>>
    /\ UNCHANGED processState

(***************************************************************************)
(* Primary Finder                                                          *)
(***************************************************************************)
\* find_primary_node_repeatedly() without the test "all of the backends are
\* down"
FindGivesUpNotStreaming(sl, st, qr) == ~sl

\* find_primary_node_repeatedly() returns -1 without probing: not in streaming
\* replication mode, or no backend is valid
FindGivesUp(sl, st, qr) ==
    \/ ~sl
    \/ \A i \in Nodes : ~VALID_BACKEND(st, qr, i)

\* what the retry loop can return: a valid backend that answered the probe as
\* primary, or -1 when search_primary_node_timeout (not 0) expired
FindResults(st, qr) ==
    (IF search_primary_node_timeout = 0 THEN {} ELSE {-1})
        \cup {i \in Nodes : VALID_BACKEND(st, qr, i)}

\* find_primary_node() takes the follow-primary lock around the verification
ProbeLockFree == follow_primary_count <= 0

\* PgpoolMain: "if the primary node id is not loaded by watchdog, search for
\* it", then (no probe needed) "Create or write status file"
StartupCheckPrimary ==
    /\ pc = "startup_search"
    /\ IF primary_node_id >= 0
       THEN /\ pc' = "first_check"
            /\ UNCHANGED primary_node_id
       ELSE IF SL_MODE /\ follow_primary_ongoing
       THEN /\ pc' = "first_check"
            /\ UNCHANGED primary_node_id
       ELSE IF FindGivesUp(SL_MODE, backend_status, quarantine)
       THEN /\ pc' = "first_check"
            /\ primary_node_id' = -1
       ELSE /\ pc' = "startup_probe"
            /\ UNCHANGED primary_node_id
    /\ status_file' = IF pc' = "first_check"
                      THEN write_status_file(backend_status, status_file)
                      ELSE status_file
    /\ UNCHANGED <<backend_status, quarantine, role, main_node_id, queueVars,
                   lockVars, staticVars, workerVars, followVars, logVars,
                   processState, switching, sigusr1_request,
                   cur, new_primary, nodes, new_main_node, histVars, signalFlags>>

\* PgpoolMain: Req_info->primary_node_id = find_primary_node_repeatedly(), then
\* "Create or write status file"
StartupProbe ==
    /\ pc = "startup_probe"
    /\ ProbeLockFree
    /\ \E r \in FindResults(backend_status, quarantine) : primary_node_id' = r
    /\ pc' = "first_check"
    /\ status_file' = write_status_file(backend_status, status_file)
    /\ idle_rounds' = 0
    /\ UNCHANGED <<backend_status, quarantine, role, main_node_id, queueVars,
                   lockVars, staticVars, workerVars, followVars, hist,
                   processState, switching, sigusr1_request,
                   cur, new_primary, nodes, new_main_node, histVars, signalFlags>>

(***************************************************************************)
(* failover()                                                              *)
(***************************************************************************)
\* PRIMARY_NODE_ID of the switch over test
PRIMARY_NODE_ID(prim) == prim

\* the loop over node_id_set[] degenerates no node
DegenerateNone(reqkind, ids, k, acc) == acc

\* the loop over node_id_set[] of a NODE_DOWN / NODE_QUARANTINE request; a
\* NODE_DOWN writes the status file after each node
RECURSIVE DegenerateNodes(_, _, _, _)
DegenerateNodes(reqkind, ids, k, acc) ==
    IF k > Len(ids) THEN acc
    ELSE LET id == ids[k] IN
         IF id # -1 /\ (acc.qr[id] \/ VALID_BACKEND(acc.st, acc.qr, id))
         THEN LET restore == /\ reqkind # "NODE_QUARANTINE_REQUEST"
                             /\ acc.prim = -1
                             /\ acc.qr[id]
                             /\ acc.role[id] = "ROLE_PRIMARY"
                  st1 == [acc.st EXCEPT ![id] = "CON_DOWN"]
              IN  DegenerateNodes(reqkind, ids, k + 1,
                    [acc EXCEPT
                       !.st = st1,
                       !.qr = [acc.qr EXCEPT
                                 ![id] = (reqkind = "NODE_QUARANTINE_REQUEST")],
                       !.prim = IF restore THEN id ELSE acc.prim,
                       !.sp = IF restore THEN FALSE ELSE acc.sp,
                       !.nd = [acc.nd EXCEPT ![id] = TRUE],
                       !.file = IF reqkind = "NODE_QUARANTINE_REQUEST"
                                THEN acc.file
                                ELSE write_status_file(st1, acc.file),
                       !.cnt = acc.cnt + 1])
         ELSE DegenerateNodes(reqkind, ids, k + 1, acc)

\* node_id = node_id_set[0]
FirstNode(req) == IF Len(req.node_id) > 0 THEN req.node_id[1] ELSE -1

\* NODE_UP that marks the backend CON_UP at once
StatusAfterNodeUpIsUp(st, node_id) == [st EXCEPT ![node_id] = "CON_UP"]

\* NODE_UP: BACKEND_INFO(node_id).backend_status = CON_CONNECT_WAIT
StatusAfterNodeUp(st, node_id) == [st EXCEPT ![node_id] = "CON_CONNECT_WAIT"]

\* NODE_UP with REQ_DETAIL_UPDATE that leaves the quarantine flag
QuarantineKept(qr, node_id) == qr

\* NODE_UP with REQ_DETAIL_UPDATE: BACKEND_INFO(node_id).quarantine = false
QuarantineCleared(qr, node_id) == [qr EXCEPT ![node_id] = FALSE]

\* validation and transition of one request: ok is FALSE for a request that
\* is dropped with "continue"; abd is all_backend_down, need and partial are
\* need_to_restart_children and partial_restart, failback tells that the
\* failback command is run
ApplyTransition(B, req, nd, file) ==
    LET reqkind == req.kind
        node_id == FirstNode(req)
        acc0 == [st |-> B.st, qr |-> B.qr, role |-> B.role, prim |-> B.prim,
                 main |-> B.main, sp |-> TRUE, nd |-> nd, cnt |-> 0, ok |-> TRUE,
                 file |-> file, abd |-> TRUE, failback |-> FALSE,
                 need |-> need_to_restart_children,
                 partial |-> partial_restart]
    IN  IF reqkind = "NODE_UP_REQUEST"
        THEN IF node_id < 0 \/ node_id >= NUM_BACKENDS
                  \/ VALID_BACKEND(B.st, B.qr, node_id)
             THEN [acc0 EXCEPT !.ok = FALSE]
             ELSE LET abd == check_all_backend_down(B.st)
                      st1 == StatusAfterNodeUp(B.st, node_id) IN
                  IF "REQ_DETAIL_UPDATE" \in req.request_details
                  THEN LET qr1 == QuarantineCleared(B.qr, node_id)
                           restore == /\ B.prim = -1
                                      /\ B.role[node_id] = "ROLE_PRIMARY"
                       IN
                       [acc0 EXCEPT
                          !.st = st1,
                          !.qr = qr1,
                          !.sp = FALSE,
                          !.abd = abd,
                          !.main = get_next_main_node(st1, qr1),
                          !.prim = IF restore THEN node_id ELSE B.prim,
                          !.need = restore \/ abd,
                          !.partial = IF restore THEN FALSE ELSE acc0.partial]
                  ELSE [acc0 EXCEPT !.st = st1,
                                    !.abd = abd,
                                    !.file = write_status_file(st1, file),
                                    !.failback = TRUE]
        ELSE IF reqkind = "PROMOTE_NODE_REQUEST"
        THEN IF node_id # -1 /\ VALID_BACKEND(B.st, B.qr, node_id)
             THEN acc0
             ELSE [acc0 EXCEPT !.ok = FALSE]
        ELSE LET acc == DegenerateNodes(reqkind, req.node_id, 1, acc0) IN
             IF acc.cnt = 0 THEN [acc0 EXCEPT !.ok = FALSE] ELSE acc

\* the decision "restart / no restart" taken before the new primary is known,
\* with the children that get SIGQUIT at once
RestartDecision(req, T) ==
    LET node_id == FirstNode(req)
        alive == {c \in children : process_info[c].pid # 0}
    IN  IF /\ STREAM
           /\ req.kind = "NODE_UP_REQUEST"
           /\ ~T.abd
           /\ T.prim >= 0
           /\ T.prim # node_id
        THEN IF "REQ_DETAIL_UPDATE" \in req.request_details
             THEN [need |-> T.need, partial |-> T.partial, killed |-> {}]
             ELSE [need |-> FALSE, partial |-> FALSE, killed |-> {}]
        ELSE IF /\ STREAM
                /\ req.kind \in {"NODE_DOWN_REQUEST", "NODE_QUARANTINE_REQUEST"}
                /\ "REQ_DETAIL_SWITCHOVER" \in req.request_details
                /\ node_id # PRIMARY_NODE_ID(T.prim)
        THEN [need |-> TRUE, partial |-> TRUE,
              killed |-> {c \in alive : UsesNode(c, node_id)}]
        ELSE [need |-> TRUE, partial |-> FALSE, killed |-> alive]

\* the choice of new_primary; search is TRUE when find_primary_node_repeatedly()
\* has to probe; finder tells how find_primary_node_repeatedly() was left
DeterminePrimary(T, req, np) ==
    LET reqkind == req.kind
        node_id == FirstNode(req)
        kept(rl, p) == [role |-> rl, np |-> p, search |-> FALSE,
                        finder |-> "none"]
        find == IF ~SL_MODE
                THEN [role |-> T.role, np |-> -1, search |-> FALSE,
                      finder |-> "gave_up"]
                ELSE IF follow_primary_ongoing
                THEN [role |-> T.role, np |-> T.prim, search |-> FALSE,
                      finder |-> "ongoing"]
                ELSE IF FindGivesUp(SL_MODE, T.st, T.qr)
                THEN [role |-> T.role, np |-> -1, search |-> FALSE,
                      finder |-> "gave_up"]
                ELSE [role |-> T.role, np |-> np, search |-> TRUE,
                      finder |-> "probe"]
    IN  IF reqkind = "PROMOTE_NODE_REQUEST" /\ VALID_BACKEND(T.st, T.qr, node_id)
        THEN kept(T.role, node_id)
        ELSE IF reqkind = "NODE_QUARANTINE_REQUEST"
        THEN IF T.prim = node_id
             THEN kept([T.role EXCEPT ![node_id] = "ROLE_PRIMARY"], -1)
             ELSE IF SL_MODE
             THEN kept(T.role, T.prim)
             ELSE kept(T.role, np)
        ELSE IF SL_MODE /\ reqkind = "NODE_DOWN_REQUEST"
        THEN IF T.prim >= 0 /\ T.prim # node_id
             THEN kept(T.role, T.prim)
             ELSE [find EXCEPT
                     !.role = IF T.prim >= 0
                              THEN [T.role EXCEPT ![T.prim] = "ROLE_STANDBY"]
                              ELSE T.role]
        ELSE IF ~T.sp
        THEN kept(T.role, T.prim)
        ELSE find

\* failover(): the request queue is empty or one request is copied out, under
\* REQUEST_INFO_SEM
FailoverDequeue ==
    /\ pc = "drain"
    /\ IF QueueEmpty(request_queue_head, request_queue_tail)
       THEN /\ switching' = FALSE
            /\ Req_switching' = FALSE
            /\ pc' = "drain_end"
            /\ new_primary' = -1
            /\ nodes' = [i \in Nodes |-> FALSE]
            /\ UNCHANGED <<request_queue_head, cur, deq_log>>
       ELSE LET head == request_queue_head + 1
                queue_index == QueueIndex(head)
            IN  /\ request_queue_head' = head
                /\ cur' = request[queue_index]
                /\ deq_log' = Append(deq_log, request_tag[queue_index].seq)
                /\ pc' = "process"
                /\ UNCHANGED <<switching, Req_switching, new_primary, nodes>>
    /\ UNCHANGED <<backendVars, request_queue_tail, request, lockVars, confVars,
                   processState, sigusr1_request, new_main_node,
                   to_signal, request_tag, enq_count, calls_left,
                   reg_result, wd_left, signalFlags>>

\* failover(): one dequeued request, from validation to the choice of the new
\* primary
FailoverProcess ==
    /\ pc = "process"
    /\ IF cur.kind = "CLOSE_IDLE_REQUEST"
       THEN /\ pc' = "drain"
            /\ cur' = EmptyRequest
            /\ UNCHANGED <<backendVars, new_primary, nodes, new_main_node,
                           status_file, need_to_restart_children,
                           partial_restart, hist>>
       ELSE LET T == ApplyTransition(Backend, cur, nodes, status_file) IN
            IF ~T.ok
            THEN /\ pc' = "drain"
                 /\ cur' = EmptyRequest
                 /\ UNCHANGED <<backendVars, new_primary, nodes, new_main_node,
                                status_file, need_to_restart_children,
                                partial_restart, hist>>
            ELSE LET R == RestartDecision(cur, T)
                     D == DeterminePrimary(T, cur, new_primary) IN
                 /\ UNCHANGED cur
                 /\ backend_status' = T.st
                 /\ quarantine' = T.qr
                 /\ primary_node_id' = T.prim
                 /\ main_node_id' = T.main
                 /\ role' = D.role
                 /\ nodes' = T.nd
                 /\ new_main_node' = get_next_main_node(T.st, T.qr)
                 /\ new_primary' = D.np
                 /\ status_file' = T.file
                 /\ need_to_restart_children' = R.need
                 /\ partial_restart' = R.partial
                 /\ hist' = PushHist(hist,
                              [req |-> cur, before |-> Backend,
                               pids |-> process_info, finder |-> D.finder,
                               found |-> -2, failback |-> T.failback,
                               follow_forked |-> FALSE,
                               failover_cmd |->
                                   IF cur.kind = "NODE_DOWN_REQUEST"
                                   THEN {i \in Nodes : T.nd[i]} ELSE {},
                               killed |-> R.killed, forked |-> {},
                               need |-> R.need, partial |-> R.partial,
                               after |-> Backend, workers |-> process_info,
                               done |-> FALSE])
                 /\ pc' = IF D.search THEN "search" ELSE "commit"
    /\ UNCHANGED <<queueVars, lockVars, staticVars, process_info, followVars,
                   idle_rounds, processState, switching,
                   sigusr1_request, histVars, signalFlags>>

\* failover(): find_primary_node_repeatedly() returns
FailoverSearch ==
    /\ pc = "search"
    /\ ProbeLockFree
    /\ \E r \in FindResults(backend_status, quarantine) :
          /\ new_primary' = r
          /\ hist' = IF hist = << >> THEN hist
                     ELSE [hist EXCEPT ![Len(hist)].found = r]
    /\ pc' = "commit"
    /\ idle_rounds' = 0
    /\ UNCHANGED <<backendVars, queueVars, lockVars, staticVars, status_file,
                   workerVars, followVars, processState,
                   switching, sigusr1_request, cur, nodes, new_main_node,
                   histVars, signalFlags>>

\* the follow-primary degeneration applies to this request
\* the degeneration needs follow_primary_command, also for a PROMOTE
FollowAppliesIfConfigured(req, prim, np, nd, st, qr) ==
    /\ STREAM
    /\ follow_primary_command
    /\ \/ req.kind = "NODE_DOWN_REQUEST" /\ prim >= 0 /\ nd[prim]
       \/ req.kind = "NODE_DOWN_REQUEST" /\ prim < 0 /\ np >= 0
       \/ /\ FirstNode(req) >= 0
          /\ req.kind = "PROMOTE_NODE_REQUEST"
          /\ VALID_BACKEND(st, qr, FirstNode(req))

FollowApplies(req, prim, np, nd, st, qr) ==
    /\ STREAM
    /\ follow_primary_command \/ req.kind = "PROMOTE_NODE_REQUEST"
    /\ \/ req.kind = "NODE_DOWN_REQUEST" /\ prim >= 0 /\ nd[prim]
       \/ req.kind = "NODE_DOWN_REQUEST" /\ prim < 0 /\ np >= 0
       \/ /\ FirstNode(req) >= 0
          /\ req.kind = "PROMOTE_NODE_REQUEST"
          /\ VALID_BACKEND(st, qr, FirstNode(req))

\* the follow-primary degeneration: every backend but the new primary is set
\* down, and the status file is written after each of them
RECURSIVE FollowDegenerate(_, _, _, _)
FollowDegenerate(i, np, st, file) ==
    IF i >= NUM_BACKENDS THEN [st |-> st, file |-> file]
    ELSE IF np >= 0 /\ i # np
         THEN LET st1 == [st EXCEPT ![i] = "CON_DOWN"]
              IN  FollowDegenerate(i + 1, np, st1, write_status_file(st1, file))
         ELSE FollowDegenerate(i + 1, np, st, file)

\* "Save primary node id" without the assignment of the role
SavedRoleNotSet(rl, prim, np) == rl

\* the role the backend new_primary gets when the primary is saved
SavedRole(rl, prim, np) ==
    IF prim # np /\ np >= 0
    THEN [rl EXCEPT ![np] = "ROLE_PRIMARY"]
    ELSE rl

\* the children "Kill children and restart them if needed" kills and forks
\* again
RestartedChildren(need, partial, node_id) ==
    {c \in children : /\ need
                      /\ partial => UsesNode(c, node_id)
                      /\ process_info[c].pid # 0}

\* restarts every child although the restart is partial
RestartChildrenAll(need, partial, node_id) ==
    [c \in children |->
        IF process_info[c].pid # 0
        THEN [process_info[c] EXCEPT !.pid = NewPid(@)]
        ELSE process_info[c]]

\* "Kill children and restart them if needed"
RestartChildren(need, partial, node_id) ==
    [c \in children |->
        IF need /\ (partial => UsesNode(c, node_id))
        THEN IF process_info[c].pid # 0
             THEN [process_info[c] EXCEPT !.pid = NewPid(@)]
             ELSE process_info[c]
        ELSE [process_info[c] EXCEPT !.need_to_restart = TRUE]]

\* failover(): follow-primary degeneration, "Save primary node id", new main
\* node, restart of the children
FailoverCommit ==
    /\ pc = "commit"
    /\ LET follow == /\ FollowApplies(cur, primary_node_id, new_primary, nodes,
                                      backend_status, quarantine)
                     /\ new_primary >= 0
                     /\ Nodes # {new_primary}
           F == IF follow
                THEN FollowDegenerate(0, new_primary, backend_status, status_file)
                ELSE [st |-> backend_status, file |-> status_file]
           nmn == IF follow THEN get_next_main_node(F.st, quarantine)
                  ELSE new_main_node
           rl == SavedRole(role, primary_node_id, new_primary)
           mn == IF nmn >= 0 THEN nmn ELSE main_node_id
       IN  /\ backend_status' = F.st
           /\ status_file' = F.file
           /\ role' = rl
           /\ primary_node_id' = new_primary
           /\ main_node_id' = mn
           /\ follow_waiting' = IF follow /\ follow_primary_command
                                THEN follow_waiting + 1 ELSE follow_waiting
           /\ process_info' = RestartChildren(need_to_restart_children,
                                              partial_restart, FirstNode(cur))
           /\ hist' = IF hist = << >> THEN hist
                      ELSE [hist EXCEPT
                              ![Len(hist)].forked =
                                  RestartedChildren(need_to_restart_children,
                                                    partial_restart,
                                                    FirstNode(cur)),
                              ![Len(hist)].after =
                                  [st |-> F.st, qr |-> quarantine, role |-> rl,
                                   prim |-> new_primary, main |-> mn],
                              ![Len(hist)].workers =
                                  RestartChildren(need_to_restart_children,
                                                  partial_restart,
                                                  FirstNode(cur)),
                              ![Len(hist)].follow_forked =
                                  follow /\ follow_primary_command,
                              ![Len(hist)].done = TRUE]
    /\ pc' = "drain"
    /\ cur' = EmptyRequest
    /\ new_main_node' = -1
    /\ need_to_restart_children' = TRUE
    /\ partial_restart' = FALSE
    /\ UNCHANGED <<quarantine, queueVars, lockVars, staticVars,
                   follow_primary_ongoing, idle_rounds, processState,
                   switching, sigusr1_request, new_primary, nodes,
                   histVars, signalFlags>>

\* failover(): after the loop, switching is cleared once more under
\* REQUEST_INFO_SEM and the function returns to the main loop
FailoverEnd ==
    /\ pc = "drain_end"
    /\ switching' = FALSE
    /\ Req_switching' = FALSE
    /\ pc' = "sleeping"
    /\ UNCHANGED <<backendVars, request_queue_head, request_queue_tail, request,
                   lockVars, confVars, processState, sigusr1_request, cur,
                   new_primary, nodes, new_main_node, histVars, signalFlags>>

(***************************************************************************)
(* The follow-primary child and the exit of the supervisor                 *)
(***************************************************************************)
\* fork_follow_child(), child: pool_acquire_follow_primary_lock(true, false)
\* succeeds and follow_primary_ongoing is set
FollowChildStart ==
    /\ follow_waiting > 0
    /\ LET a == pool_acquire_follow_primary_lock(LockState, TRUE, FALSE)
       IN  /\ a.result = "acquired"
           /\ SetLock(a.lock)
    /\ follow_primary_ongoing' = TRUE
    /\ follow_waiting' = follow_waiting - 1
    /\ UNCHANGED <<backendVars, queueVars, lpc, lock_ops, last_op, staticVars,
                   status_file, workerVars, logVars, mainVars, histVars,
                   signalFlags>>

\* fork_follow_child(), child: the follow primary commands are done,
\* follow_primary_ongoing is cleared and the lock released
FollowChildEnd ==
    /\ follow_primary_ongoing
    /\ follow_primary_ongoing' = FALSE
    /\ SetLock(pool_release_follow_primary_lock(LockState, FALSE))
    /\ UNCHANGED <<backendVars, queueVars, lpc, lock_ops, last_op, staticVars,
                   status_file, workerVars, follow_waiting, logVars, mainVars,
                   histVars, signalFlags>>

\* system_will_go_down(): the exit handler of the supervisor writes the status
\* file
SupervisorExit ==
    /\ pc = "sleeping"
    /\ pc' = "exited"
    /\ status_file' = write_status_file(backend_status, status_file)
    /\ UNCHANGED <<backendVars, queueVars, lockVars, staticVars, workerVars,
                   followVars, logVars, processState, switching,
                   sigusr1_request, cur, new_primary, nodes, new_main_node,
                   histVars, signalFlags>>

(***************************************************************************)
(* exit_handler and system_will_go_down                                    *)
(***************************************************************************)
\* what the shutdown leaves alone
ExitFrame ==
    UNCHANGED <<backendVars, queueVars, lockVars, baseConf, probeVars,
                fileVars, need_to_restart_children, partial_restart,
                followVars, logVars, pc, switching, sigusr1_request, cur,
                new_primary, nodes, new_main_node, histVars, signalFlags>>

\* SIGTERM, SIGINT or SIGQUIT is delivered to the supervisor, possibly while
\* an exit_handler is running (the signal mask AuthBlockSig may let it
\* through): a new invocation of exit_handler starts, the interrupted one
\* resumes when it returns
ExitSignal ==
    /\ ExitFrame
    /\ UNCHANGED reap
    /\ exit_signals < MaxSignals
    /\ "exit" \notin {exit_log[k] : k \in 1 .. Len(exit_log)}
    /\ exit_signals' = exit_signals + 1
    /\ exit_stack' = Append(exit_stack, "check")
    /\ UNCHANGED <<exiting, exit_sem, exit_log, processState, process_info>>

\* terminate_all_childrens(): every worker is signalled and its slot cleared
TerminatedChildren(pinfo) ==
    [c \in DOMAIN pinfo |-> [pinfo[c] EXCEPT !.pid = 0]]

\* one statement of the innermost exit_handler; exit(0) runs
\* system_will_go_down(), which terminates the children only if processState
\* is not EXITING
exit_handler ==
    /\ exit_stack # << >>
    /\ ExitFrame
    /\ UNCHANGED <<exit_signals, reap>>
    /\ LET top == exit_stack[Len(exit_stack)]
           rest == SubSeq(exit_stack, 1, Len(exit_stack) - 1)
           goto(l) == exit_stack' = Append(rest, l)
       IN  CASE top = "check" ->
                  /\ IF exiting # 0
                     THEN exit_stack' = rest
                     ELSE goto("lock")
                  /\ UNCHANGED <<exiting, exit_sem, exit_log, processState,
                                 process_info>>
             [] top = "lock" ->
                  /\ exit_sem = 1
                  /\ exit_sem' = 0
                  /\ goto("locked")
                  /\ UNCHANGED <<exiting, exit_log, processState, process_info>>
             [] top = "locked" ->
                  /\ IF exiting # 0
                     THEN goto("unlock_return")
                     ELSE goto("set")
                  /\ UNCHANGED <<exiting, exit_sem, exit_log, processState,
                                 process_info>>
             [] top = "set" ->
                  /\ exiting' = 1
                  /\ exit_log' = Append(exit_log, "exiting")
                  /\ goto("unlock")
                  /\ UNCHANGED <<exit_sem, processState, process_info>>
             [] top = "unlock" ->
                  /\ exit_sem' = 1
                  /\ goto("state")
                  /\ UNCHANGED <<exiting, exit_log, processState, process_info>>
             [] top = "unlock_return" ->
                  /\ exit_sem' = 1
                  /\ exit_stack' = rest
                  /\ UNCHANGED <<exiting, exit_log, processState, process_info>>
             [] top = "state" ->
                  /\ processState' = "EXITING"
                  /\ goto("terminate")
                  /\ UNCHANGED <<exiting, exit_sem, exit_log, process_info>>
             [] top = "terminate" ->
                  /\ exit_log' = Append(exit_log, "exit_handler")
                  /\ process_info' = TerminatedChildren(process_info)
                  /\ goto("exit")
                  /\ UNCHANGED <<exiting, exit_sem, processState>>
             [] top = "exit" ->
                  /\ exit_log' =
                        IF processState # "EXITING"
                        THEN exit_log \o <<"system_will_go_down", "exit">>
                        ELSE Append(exit_log, "exit")
                  /\ process_info' =
                        IF processState # "EXITING"
                        THEN TerminatedChildren(process_info)
                        ELSE process_info
                  /\ processState' = "EXITING"
                  /\ exit_stack' = << >>
                  /\ UNCHANGED <<exiting, exit_sem>>

\* a supervisor with running workers, before any shutdown signal
InitExit ==
    /\ \E st \in InitialStatus : InitShared(st)
    /\ SL_MODE \in BOOLEAN
    /\ use_watchdog = FALSE
    /\ follow_primary_command = FALSE
    /\ req_domain = {}
    /\ calls_left = 0
    /\ wd_left = 0
    /\ pc = "sleep"
    /\ InitPrivate
    /\ InitChildren([i \in Nodes |-> 0])
    /\ NoProbe
    /\ NoFile
    /\ children = 1 .. NumChildren
    /\ con_lb = [c \in 1 .. NumChildren |-> {}]
    /\ process_info \in [1 .. NumChildren ->
                            [pid : {0, 1}, need_to_restart : {FALSE}]]
    /\ search_primary_node_timeout = 1
    /\ hist_depth = 1

\* the supervisor and the signals that end it
NextExit ==
    \/ ExitSignal
    \/ exit_handler

\* the handler runs whenever it is not blocked on MAIN_EXIT_HANDLER_SEM;
\* nothing forces a signal to arrive
SpecExit == InitExit /\ [][NextExit]_vars /\ WF_vars(exit_handler)

(***************************************************************************)
(* reaper                                                                  *)
(***************************************************************************)
\* a running child exits: by exit(POOL_EXIT_FATAL), exit(POOL_EXIT_NO_RESTART),
\* exit() with another code, or by a signal; SIGCHLD is pending until reaper()
ChildExits ==
    /\ processState # "EXITING"
    /\ Len(reap.zombies) < MaxZombies
    /\ Len(reap.log) + Len(reap.zombies) < MaxExits
    /\ \E kind \in DOMAIN reap.pid \cup {"child", "health_check"},
          status \in {"FATAL", "NO_RESTART", "EXIT", "SIGNAL"} :
          \E idx \in CASE kind = "child" -> DOMAIN process_info
                       [] kind = "health_check" -> Nodes
                       [] OTHER -> {0} :
             LET pid == CASE kind = "child" -> process_info[idx].pid
                          [] kind = "health_check" -> reap.hc[idx]
                          [] OTHER -> reap.pid[kind]
             IN  /\ pid # 0
                 /\ \A k \in 1 .. Len(reap.zombies) :
                        <<reap.zombies[k].kind, reap.zombies[k].idx>>
                            # <<kind, idx>>
                 /\ reap' = [reap EXCEPT !.zombies =
                                Append(@, [kind |-> kind, idx |-> idx,
                                           pid |-> pid, status |-> status,
                                           switching |-> switching])]
    /\ UNCHANGED <<backendVars, queueVars, lockVars, baseConf, exiting,
                   exit_sem, exit_stack, exit_log, exit_signals, probeVars,
                   fileVars, workerVars, followVars, logVars, mainVars,
                   histVars, signalFlags>>

\* every exit is answered with a new child
restart_child_always(status) == TRUE

\* no exit is answered with a new child
restart_child_never(status) == FALSE

\* reaper(): restart_child, false only after exit(POOL_EXIT_NO_RESTART)
restart_child(status) == status # "NO_RESTART"

\* reaper(): the body of the while loop for the child z returned by
\* pool_waitpid(); st carries .pid, .hc, .pinfo, .log and .down (the supervisor
\* left through ereport(FATAL))
reap_child(st, z) ==
    LET shutdown_system == z.status = "FATAL"
        restart == restart_child(z.status)
        single == /\ z.kind \in {"pcp", "worker", "logger"}
                        \cup (IF use_watchdog THEN {"watchdog", "lifecheck"}
                              ELSE {})
                  /\ z.pid = st.pid[z.kind]
        worker == z.kind = "child" /\ z.pid = st.pinfo[z.idx].pid
        health == z.kind = "health_check" /\ z.pid = st.hc[z.idx]
        valid == VALID_BACKEND(backend_status, quarantine, z.idx)
        new == CASE single -> IF restart THEN NewPid(z.pid) ELSE 0
                 [] worker -> IF ~switching /\ exiting = 0 /\ restart
                              THEN NewPid(z.pid) ELSE 0
                 [] health -> IF ~switching /\ exiting = 0 /\ valid
                              THEN NewPid(z.pid) ELSE 0
                 [] OTHER -> z.pid
    IN  [pid |-> IF single THEN [st.pid EXCEPT ![z.kind] = new] ELSE st.pid,
         hc |-> IF health THEN [st.hc EXCEPT ![z.idx] = new] ELSE st.hc,
         pinfo |-> IF worker THEN [st.pinfo EXCEPT ![z.idx].pid = new]
                   ELSE st.pinfo,
         log |-> Append(st.log, [kind |-> z.kind, idx |-> z.idx,
                                 status |-> z.status,
                                 switching |-> z.switching,
                                 found |-> single \/ worker \/ health,
                                 valid |-> health /\ valid,
                                 pid |-> z.pid, new_pid |-> new,
                                 shutdown_system |-> shutdown_system]),
         down |-> shutdown_system]

\* reaper(): while ((pid = pool_waitpid(&status)) > 0), left early by
\* ereport(FATAL)
RECURSIVE reap_all(_, _)
reap_all(st, zs) ==
    IF zs = << >> \/ st.down THEN st
    ELSE reap_all(reap_child(st, Head(zs)), Tail(zs))

\* reaper(), called from the main loop after SIGCHLD
reaper ==
    /\ processState # "EXITING"
    /\ reap.zombies # << >>
    /\ IF exiting # 0 \/ switching
       THEN UNCHANGED <<reap, process_info, processState>>
       ELSE LET st == reap_all([pid |-> reap.pid, hc |-> reap.hc,
                                pinfo |-> process_info, log |-> reap.log,
                                down |-> FALSE], reap.zombies)
            IN  /\ reap' = [pid |-> st.pid, hc |-> st.hc, zombies |-> << >>,
                            log |-> st.log]
                /\ process_info' = st.pinfo
                /\ processState' = IF st.down THEN "EXITING" ELSE processState
    /\ UNCHANGED <<backendVars, queueVars, lockVars, baseConf, exiting,
                   exit_sem, exit_stack, exit_log, exit_signals, probeVars,
                   fileVars, need_to_restart_children, partial_restart,
                   followVars, logVars, pc, switching, sigusr1_request, cur,
                   new_primary, nodes, new_main_node, histVars, signalFlags>>

\* the supervisor in its main loop with its children running; a backend that
\* is down may still have the health-check worker forked while it was up
InitReaper ==
    /\ \E st \in InitialStatus : InitShared(st)
    /\ SL_MODE = TRUE
    /\ use_watchdog \in BOOLEAN
    /\ follow_primary_command = FALSE
    /\ req_domain = {}
    /\ calls_left = 0
    /\ wd_left = 0
    /\ pc = "sleep"
    /\ InitPrivate
    /\ \E hc \in [Nodes -> {0, 1}] :
          /\ \A n \in Nodes :
                VALID_BACKEND(backend_status, quarantine, n) => hc[n] = 1
          /\ InitChildren(hc)
    /\ NoProbe
    /\ NoFile
    /\ children = 1 .. NumChildren
    /\ con_lb = [c \in 1 .. NumChildren |-> {}]
    /\ process_info = [c \in 1 .. NumChildren |->
                          [pid |-> 1, need_to_restart |-> FALSE]]
    /\ search_primary_node_timeout = 1
    /\ hist_depth = 1

NextReaper ==
    \/ ChildExits
    \/ reaper

SpecReaper == InitReaper /\ [][NextReaper]_vars

\* the supervisor with its query workers, which may exit at any time, one
\* request, and reaper() called after SIGCHLD
InitReapDrain ==
    /\ InitShared([i \in Nodes |-> "CON_CONNECT_WAIT"])
    /\ SL_MODE = TRUE
    /\ use_watchdog = FALSE
    /\ follow_primary_command = FALSE
    /\ req_domain = {r \in QueueRequests : r.node_id = <<0>>}
    /\ calls_left = MaxRequests
    /\ wd_left = 0
    /\ pc = "startup_search"
    /\ InitPrivate
    /\ InitChildren([i \in Nodes |-> 1])
    /\ NoProbe
    /\ NoFile
    /\ children = 1 .. NumChildren
    /\ con_lb = [c \in 1 .. NumChildren |-> {}]
    /\ process_info = [c \in 1 .. NumChildren |->
                          [pid |-> 1, need_to_restart |-> FALSE]]
    /\ search_primary_node_timeout = 1
    /\ hist_depth = 1

NextReapDrain ==
    \/ Register
    \/ signal_user1_to_parent_with_reason
    \/ StartupCheckPrimary
    \/ StartupProbe
    \/ CheckRequestNested
    \/ FirstCheckRequest
    \/ CheckRequest
    \/ FailoverDequeue
    \/ FailoverProcess
    \/ FailoverSearch
    \/ FailoverCommit
    \/ FailoverEnd
    \/ ChildExits
    \/ reaper

SpecReapDrain == InitReapDrain /\ [][NextReapDrain]_vars

(***************************************************************************)
(* The supervisor with its producers and the watchdog                      *)
(***************************************************************************)
\* the supervisor and its producers, no watchdog
NextQueue ==
    \/ Register
    \/ signal_user1_to_parent_with_reason
    \/ StartupCheckPrimary
    \/ StartupProbe
    \/ CheckRequestNested
    \/ FirstCheckRequest
    \/ CheckRequest
    \/ FailoverDequeue
    \/ FailoverProcess
    \/ FailoverSearch
    \/ FailoverCommit
    \/ FailoverEnd

SpecQueue == InitQueue /\ [][NextQueue]_vars

\* the supervisor, its producers and the watchdog
Next ==
    \/ Register
    \/ signal_user1_to_parent_with_reason
    \/ WatchdogNotify
    \/ WatchdogReady
    \/ CheckRequestWdInit
    \/ StartupCheckPrimary
    \/ StartupProbe
    \/ CheckRequestNested
    \/ FirstCheckRequest
    \/ CheckRequest
    \/ FailoverDequeue
    \/ FailoverProcess
    \/ FailoverSearch
    \/ FailoverCommit
    \/ FailoverEnd
    \/ FollowChildStart
    \/ FollowChildEnd

Spec == Init /\ [][Next]_vars

\* the steps of failover() only that run between
\* pool_semaphore_lock(REQUEST_INFO_SEM) and its unlock
UnderRequestInfoSemInFailover ==
    \/ FailoverDequeue
    \/ FailoverEnd

\* the steps that run between pool_semaphore_lock(REQUEST_INFO_SEM) and
\* pool_semaphore_unlock(REQUEST_INFO_SEM): the enqueue, the dequeue (or the
\* end of the drain) and the reset of switching when failover() returns
UnderRequestInfoSem ==
    \/ Register
    \/ FailoverDequeue
    \/ FailoverEnd

\* find_primary_node_repeatedly(): a round of the retry loop in which no
\* backend is valid: find_primary_node() connects to nothing and returns -1,
\* pool_sleep(1), next round (a round that fails while some backend is valid
\* changes nothing)
ProbeFails ==
    /\ pc \in {"startup_probe", "search"}
    /\ ProbeLockFree
    /\ search_primary_node_timeout = 0
    /\ \A i \in Nodes : ~VALID_BACKEND(backend_status, quarantine, i)
    /\ idle_rounds < MaxIdleRounds
    /\ idle_rounds' = idle_rounds + 1
    /\ UNCHANGED <<backendVars, queueVars, lockVars, baseConf, exitVars, probeVars,
                   fileVars, workerVars, followVars, hist, mainVars, histVars,
                   signalFlags>>

\* the supervisor with the watchdog, in streaming replication mode with
\* search_primary_node_timeout = 0
InitFinder ==
    /\ \E st \in InitialStatus : InitShared(st)
    /\ SL_MODE = TRUE
    /\ use_watchdog = TRUE
    /\ follow_primary_command \in BOOLEAN
    /\ req_domain = Requests
    /\ calls_left = MaxRequests
    /\ wd_left = MaxWdEvents
    /\ pc = "wd_init"
    /\ InitPrivate
    /\ InitChildren([i \in Nodes |-> 0])
    /\ NoProbe
    /\ NoFile
    /\ NoWorkers
    /\ search_primary_node_timeout = 0
    /\ hist_depth = 0

NextFinder ==
    \/ Next
    \/ ProbeFails

SpecFinder == InitFinder /\ [][NextFinder]_vars

\* requests with the switch over flag
SwitchoverRequests ==
    {[kind |-> k, node_id |-> <<i>>, request_details |-> {"REQ_DETAIL_SWITCHOVER"}] :
        k \in {"NODE_DOWN_REQUEST", "NODE_QUARANTINE_REQUEST"}, i \in Nodes}

\* the supervisor without watchdog, in any replication mode, with the history
\* of the last two requests
InitFailover ==
    /\ \E st \in InitialStatus : InitShared(st)
    /\ SL_MODE \in BOOLEAN
    /\ use_watchdog = FALSE
    /\ follow_primary_command \in BOOLEAN
    /\ req_domain = Requests
    /\ calls_left = MaxSeq
    /\ wd_left = 0
    /\ pc = "startup_search"
    /\ InitPrivate
    /\ InitChildren([i \in Nodes |-> 0])
    /\ NoProbe
    /\ NoFile
    /\ NoWorkers
    /\ search_primary_node_timeout = 1
    /\ hist_depth = MaxSeq

\* the supervisor, its producers, the follow-primary children and the exit
NextFailover ==
    \/ Register
    \/ signal_user1_to_parent_with_reason
    \/ StartupCheckPrimary
    \/ StartupProbe
    \/ CheckRequestNested
    \/ FirstCheckRequest
    \/ CheckRequest
    \/ FailoverDequeue
    \/ FailoverProcess
    \/ FailoverSearch
    \/ FailoverCommit
    \/ FailoverEnd
    \/ FollowChildStart
    \/ FollowChildEnd
    \/ SupervisorExit

SpecFailover == InitFailover /\ [][NextFailover]_vars


\* requests for one backend without any flag
FollowRequests ==
    {[kind |-> k, node_id |-> <<i>>, request_details |-> {}] :
        k \in {"NODE_UP_REQUEST", "NODE_DOWN_REQUEST", "PROMOTE_NODE_REQUEST"},
        i \in Nodes}

\* the supervisor without watchdog in streaming replication mode with a
\* follow_primary_command, all backends up at the start
InitFollow ==
    /\ InitShared([i \in Nodes |-> "CON_CONNECT_WAIT"])
    /\ SL_MODE = TRUE
    /\ use_watchdog = FALSE
    /\ follow_primary_command = TRUE
    /\ req_domain = FollowRequests
    /\ calls_left = MaxFollowSeq
    /\ wd_left = 0
    /\ pc = "startup_search"
    /\ InitPrivate
    /\ InitChildren([i \in Nodes |-> 0])
    /\ NoProbe
    /\ NoFile
    /\ NoWorkers
    /\ search_primary_node_timeout = 1
    /\ hist_depth = 2

SpecFollow == InitFollow /\ [][NextFailover]_vars

\* streaming replication with a follow_primary_command and MaxSeq requests
InitDrain ==
    /\ InitShared([i \in Nodes |-> "CON_CONNECT_WAIT"])
    /\ SL_MODE = TRUE
    /\ use_watchdog = FALSE
    /\ follow_primary_command = TRUE
    /\ req_domain = FollowRequests
    /\ calls_left = MaxSeq
    /\ wd_left = 0
    /\ pc = "startup_search"
    /\ InitPrivate
    /\ InitChildren([i \in Nodes |-> 0])
    /\ NoProbe
    /\ NoFile
    /\ NoWorkers
    /\ search_primary_node_timeout = 1
    /\ hist_depth = MaxSeq

\* failover() is sequential code of the supervisor: between two calls that can
\* wait (the probe of the finder, which takes the follow-primary lock and
\* sleeps) each of its steps is taken
SpecDrain ==
    /\ InitDrain
    /\ [][NextFailover]_vars
    /\ WF_vars(FailoverDequeue)
    /\ WF_vars(FailoverProcess)
    /\ WF_vars(FailoverCommit)
    /\ WF_vars(FailoverEnd)

\* the supervisor without watchdog with its query workers: each slot has a
\* process or not, and its connected pools balance load to some backends
InitRestart ==
    /\ \E st \in InitialStatus : InitShared(st)
    /\ SL_MODE \in BOOLEAN
    /\ use_watchdog = FALSE
    /\ follow_primary_command \in BOOLEAN
    /\ req_domain = Requests \cup SwitchoverRequests
    /\ calls_left = MaxRestartSeq
    /\ wd_left = 0
    /\ pc = "startup_search"
    /\ InitPrivate
    /\ InitChildren([i \in Nodes |-> 0])
    /\ NoProbe
    /\ NoFile
    /\ children = 1 .. NumChildren
    /\ con_lb \in [1 .. NumChildren -> SUBSET Nodes]
    /\ process_info \in [1 .. NumChildren ->
                            [pid : {0, 1}, need_to_restart : {FALSE}]]
    /\ search_primary_node_timeout = 1
    /\ hist_depth = 1

SpecRestart == InitRestart /\ [][NextFailover]_vars

\* the supervisor with the watchdog and its query workers
InitSync ==
    /\ \E st \in InitialStatus : InitShared(st)
    /\ SL_MODE \in BOOLEAN
    /\ use_watchdog = TRUE
    /\ follow_primary_command = FALSE
    /\ req_domain = {}
    /\ calls_left = 0
    /\ wd_left = MaxWdEvents
    /\ pc = "wd_init"
    /\ InitPrivate
    /\ InitChildren([i \in Nodes |-> 0])
    /\ NoProbe
    /\ NoFile
    /\ children = 1 .. NumChildren
    /\ con_lb \in [1 .. NumChildren -> SUBSET Nodes]
    /\ process_info \in [1 .. NumChildren ->
                            [pid : {0, 1}, need_to_restart : {FALSE}]]
    /\ search_primary_node_timeout = 1
    /\ hist_depth = 1

\* the supervisor serving the watchdog's notifications, at startup and in its
\* main loop
NextSync ==
    \/ WatchdogNotify
    \/ WatchdogReady
    \/ CheckRequestWdInit
    \/ StartupCheckPrimary
    \/ StartupProbe
    \/ CheckRequestNested
    \/ FirstCheckRequest
    \/ CheckRequest

SpecSync == InitSync /\ [][NextSync]_vars

(***************************************************************************)
(* The supervisor serving SIGUSR1 from its start on                        *)
(***************************************************************************)
\* the supervisor with watchdog from the wait for the watchdog on, with
\* producers of requests and the watchdog child
InitSignal ==
    /\ InitShared([i \in Nodes |-> "CON_CONNECT_WAIT"])
    /\ SL_MODE = TRUE
    /\ use_watchdog = TRUE
    /\ follow_primary_command = FALSE
    /\ req_domain = QueueRequests
    /\ calls_left = MaxRequests
    /\ wd_left = MaxWdEvents
    /\ pc = "wd_init"
    /\ InitPrivate
    /\ InitChildren([i \in Nodes |-> 0])
    /\ NoProbe
    /\ NoFile
    /\ NoWorkers
    /\ search_primary_node_timeout = 1
    /\ hist_depth = 0

NextSignal ==
    \/ Register
    \/ signal_user1_to_parent_with_reason
    \/ WatchdogNotify
    \/ WatchdogQuorumChanged
    \/ WatchdogReady
    \/ CheckRequestWdInit
    \/ StartupCheckPrimary
    \/ StartupProbe
    \/ CheckRequestNested
    \/ FirstCheckRequest
    \/ CheckRequest
    \/ FailoverDequeue
    \/ FailoverProcess
    \/ FailoverSearch
    \/ FailoverCommit
    \/ FailoverEnd

\* the supervisor is one sequential process that takes each of its steps;
\* SIGUSR1 is delivered; the watchdog child reports that it is ready
SpecSignal ==
    /\ InitSignal
    /\ [][NextSignal]_vars
    /\ WF_vars(signal_user1_to_parent_with_reason)
    /\ WF_vars(WatchdogReady)
    /\ WF_vars(CheckRequestWdInit)
    /\ WF_vars(StartupCheckPrimary)
    /\ WF_vars(StartupProbe)
    /\ WF_vars(FirstCheckRequest)
    /\ WF_vars(CheckRequest)
    /\ WF_vars(FailoverDequeue)
    /\ WF_vars(FailoverProcess)
    /\ WF_vars(FailoverSearch)
    /\ WF_vars(FailoverCommit)
    /\ WF_vars(FailoverEnd)

(***************************************************************************)
(* Quarantine, the watchdog quorum and the leader's reports                *)
(***************************************************************************)
\* a quarantine of one backend and an attach of one backend
QuarantineRequests ==
    {[kind |-> k, node_id |-> <<i>>, request_details |-> {}] :
        k \in {"NODE_QUARANTINE_REQUEST", "NODE_UP_REQUEST"}, i \in Nodes}

\* the supervisor with watchdog in streaming replication mode, after the
\* watchdog is initialised
InitQuorum ==
    /\ InitShared([i \in Nodes |-> "CON_CONNECT_WAIT"])
    /\ SL_MODE = TRUE
    /\ use_watchdog = TRUE
    /\ follow_primary_command = FALSE
    /\ req_domain = QuarantineRequests
    /\ calls_left = MaxSeq
    /\ wd_left = MaxWdEvents
    /\ pc = "startup_search"
    /\ InitPrivate
    /\ InitChildren([i \in Nodes |-> 0])
    /\ NoProbe
    /\ NoFile
    /\ NoWorkers
    /\ search_primary_node_timeout = 1
    /\ hist_depth = MaxSeq

NextQuorum ==
    \/ Register
    \/ signal_user1_to_parent_with_reason
    \/ WatchdogNotify
    \/ WatchdogQuorumChanged
    \/ StartupCheckPrimary
    \/ StartupProbe
    \/ CheckRequestNested
    \/ FirstCheckRequest
    \/ CheckRequest
    \/ FailoverDequeue
    \/ FailoverProcess
    \/ FailoverSearch
    \/ FailoverCommit
    \/ FailoverEnd

SpecQuorum == InitQuorum /\ [][NextQuorum]_vars

(***************************************************************************)
(* Users of the follow-primary lock: local processes (find_primary_node,   *)
(* the follow-primary child, the false-primary check of the worker) and    *)
(* the requests of the remote watchdog leader                              *)
(***************************************************************************)
LockOp(p, op, block, remote_request, result) ==
    /\ lock_ops < MaxLockOps
    /\ lock_ops' = lock_ops + 1
    /\ last_op' = [op |-> op, proc |-> p, block |-> block,
                   remote_request |-> remote_request, result |-> result]

\* where a process is after one pass of pool_acquire_follow_primary_lock()
AfterAcquire(result) ==
    IF result = "acquired" THEN "holding"
    ELSE IF result = "sleep" THEN "sleeping"
    ELSE "idle"

\* a local process calls pool_acquire_follow_primary_lock(block, false)
LocalAcquire ==
    \E p \in LockProcs, block \in BOOLEAN :
        /\ lpc[p] = "idle"
        /\ LET r == pool_acquire_follow_primary_lock(LockState, block, FALSE) IN
           /\ SetLock(r.lock)
           /\ lpc' = [lpc EXCEPT ![p] = AfterAcquire(r.result)]
           /\ LockOp(p, "acquire", block, FALSE, r.result)
        /\ UNCHANGED <<backendVars, queueVars, confVars, mainVars, histVars,
                       signalFlags>>

\* a sleeping caller wakes up after sleep(1) and passes the loop again
AcquireRetry ==
    \E p \in LockProcs \cup {RemoteProc} :
        /\ lpc[p] = "sleeping"
        /\ LET r == pool_acquire_follow_primary_lock(LockState, TRUE,
                                                     p = RemoteProc) IN
           /\ SetLock(r.lock)
           /\ lpc' = [lpc EXCEPT ![p] = IF p = RemoteProc /\ r.result = "acquired"
                                        THEN "idle"
                                        ELSE AfterAcquire(r.result)]
           /\ LockOp(p, "retry", TRUE, p = RemoteProc, r.result)
        /\ UNCHANGED <<backendVars, queueVars, confVars, mainVars, histVars,
                       signalFlags>>

\* the holder calls pool_release_follow_primary_lock(false)
LocalRelease ==
    \E p \in LockProcs :
        /\ lpc[p] = "holding"
        /\ SetLock(pool_release_follow_primary_lock(LockState, FALSE))
        /\ lpc' = [lpc EXCEPT ![p] = "idle"]
        /\ LockOp(p, "release", FALSE, FALSE, "released")
        /\ UNCHANGED <<backendVars, queueVars, confVars, mainVars, histVars,
                       signalFlags>>

\* the remote leader asks for the lock:
\* pool_acquire_follow_primary_lock(block, true)
RemoteAcquire ==
    \E block \in BOOLEAN :
        /\ lpc[RemoteProc] = "idle"
        /\ LET r == pool_acquire_follow_primary_lock(LockState, block, TRUE) IN
           /\ SetLock(r.lock)
           /\ lpc' = [lpc EXCEPT ![RemoteProc] = IF r.result = "sleep"
                                                 THEN "sleeping" ELSE "idle"]
           /\ LockOp(RemoteProc, "acquire", block, TRUE, r.result)
        /\ UNCHANGED <<backendVars, queueVars, confVars, mainVars, histVars,
                       signalFlags>>

\* the remote leader releases, or sigusr1_interupt_processor() releases on
\* SIG_WATCHDOG_STATE_CHANGED: pool_release_follow_primary_lock(true)
RemoteRelease ==
    /\ lpc[RemoteProc] = "idle"
    /\ SetLock(pool_release_follow_primary_lock(LockState, TRUE))
    /\ LockOp(RemoteProc, "release", FALSE, TRUE, "released")
    /\ UNCHANGED <<lpc, backendVars, queueVars, confVars, mainVars, histVars,
                   signalFlags>>

NextLock ==
    \/ LocalAcquire
    \/ AcquireRetry
    \/ LocalRelease
    \/ RemoteAcquire
    \/ RemoteRelease

SpecLock == InitQueue /\ [][NextLock]_vars

(***************************************************************************)
(* One probe round: verify_backend_node_status() and find_primary_node()   *)
(***************************************************************************)
POOL_NODE_STATUS == {"POOL_NODE_STATUS_UNUSED", "POOL_NODE_STATUS_PRIMARY",
                     "POOL_NODE_STATUS_STANDBY", "POOL_NODE_STATUS_INVALID"}

\* first loop: what each backend answers to SELECT pg_is_in_recovery();
\* "none" stands for a backend that is not valid, has no connection, whose
\* query fails or whose answer is neither "t" nor "f"
FirstPass(ans) ==
    [i \in ProbeNodes |->
        CASE ans[i] = "t" -> "POOL_NODE_STATUS_STANDBY"
          [] ans[i] = "f" -> "POOL_NODE_STATUS_PRIMARY"
          [] OTHER -> "POOL_NODE_STATUS_UNUSED"]

NumWithStatus(ns, what) == Cardinality({i \in ProbeNodes : ns[i] = what})

\* several primaries and no standby: the first one found stays, the later ones
\* become INVALID (detach_false_primary) or UNUSED
KeepFirstPrimaryKeepsLast(ns, detach) ==
    LET last == CHOOSE i \in ProbeNodes :
                    /\ ns[i] = "POOL_NODE_STATUS_PRIMARY"
                    /\ \A j \in ProbeNodes :
                          ns[j] = "POOL_NODE_STATUS_PRIMARY" => j <= i
    IN  [i \in ProbeNodes |->
            IF ns[i] = "POOL_NODE_STATUS_PRIMARY" /\ i # last
            THEN IF detach THEN "POOL_NODE_STATUS_INVALID"
                 ELSE "POOL_NODE_STATUS_UNUSED"
            ELSE ns[i]]

KeepFirstPrimary(ns, detach) ==
    LET first == CHOOSE i \in ProbeNodes :
                    /\ ns[i] = "POOL_NODE_STATUS_PRIMARY"
                    /\ \A j \in ProbeNodes :
                          ns[j] = "POOL_NODE_STATUS_PRIMARY" => i <= j
    IN  [i \in ProbeNodes |->
            IF ns[i] = "POOL_NODE_STATUS_PRIMARY" /\ i > first
            THEN IF detach THEN "POOL_NODE_STATUS_INVALID"
                 ELSE "POOL_NODE_STATUS_UNUSED"
            ELSE ns[i]]

\* primary[i]: the standbys whose wal receiver streams from backend i
OwnedStandbys(ns, up, i) ==
    Cardinality({j \in ProbeNodes :
                    ns[j] = "POOL_NODE_STATUS_STANDBY" /\ up[j] = i})

\* every primary that owns fewer standbys than there are becomes INVALID
DetachEveryPartialOwner(ns, up) ==
    LET num_standbys == NumWithStatus(ns, "POOL_NODE_STATUS_STANDBY")
    IN  [i \in ProbeNodes |->
            IF /\ ns[i] = "POOL_NODE_STATUS_PRIMARY"
               /\ OwnedStandbys(ns, up, i) < num_standbys
            THEN "POOL_NODE_STATUS_INVALID"
            ELSE ns[i]]

\* connectivity check: a primary that owns every standby is the true primary;
\* when there is one, the primaries that own fewer standbys become INVALID
DetachFalsePrimaries(ns, up) ==
    LET num_standbys == NumWithStatus(ns, "POOL_NODE_STATUS_STANDBY")
        owners == {i \in ProbeNodes : /\ ns[i] = "POOL_NODE_STATUS_PRIMARY"
                                      /\ OwnedStandbys(ns, up, i) = num_standbys}
    IN  [i \in ProbeNodes |->
            IF /\ ns[i] = "POOL_NODE_STATUS_PRIMARY"
               /\ OwnedStandbys(ns, up, i) < num_standbys
               /\ owners # {}
            THEN "POOL_NODE_STATUS_INVALID"
            ELSE ns[i]]

verify_backend_node_status(ans, up, detach, connectivity) ==
    LET ns == FirstPass(ans)
        num_primaries == NumWithStatus(ns, "POOL_NODE_STATUS_PRIMARY")
        num_standbys == NumWithStatus(ns, "POOL_NODE_STATUS_STANDBY")
    IN  IF num_primaries = 0 THEN ns
        ELSE IF num_standbys = 0
             THEN IF num_primaries = 1 THEN ns ELSE KeepFirstPrimary(ns, detach)
        ELSE IF ~detach THEN ns
        ELSE IF ~connectivity THEN ns
        ELSE DetachFalsePrimaries(ns, up)

\* the last backend marked PRIMARY is the one find_primary_node() returns
LastPrimary(ns) ==
    LET ps == {i \in ProbeNodes : ns[i] = "POOL_NODE_STATUS_PRIMARY"}
    IN  IF ps = {} THEN -1 ELSE CHOOSE i \in ps : \A j \in ps : j <= i

\* what the backends answer in one round
ProbeInputs ==
    /\ probe_answer \in [ProbeNodes -> {"none", "t", "f"}]
    /\ wal_upstream \in [ProbeNodes -> ProbeNodes \cup {-1}]
    /\ \A j \in ProbeNodes : probe_answer[j] # "t" => wal_upstream[j] = -1
    /\ \A j \in ProbeNodes : wal_upstream[j] # j
    /\ detach_false_primary \in BOOLEAN
    /\ check_connectivity \in BOOLEAN

VerifyBackendNodeStatus ==
    /\ vpc = "connected"
    /\ pool_node_status' = verify_backend_node_status(probe_answer, wal_upstream,
                              detach_false_primary, check_connectivity)
    /\ vpc' = "verified"
    /\ UNCHANGED <<probe_answer, wal_upstream, detach_false_primary,
                   check_connectivity, probe_primary>>
    /\ UNCHANGED <<backendVars, queueVars, lockVars, baseConf, exitVars, fileVars,
                   workerVars, followVars, logVars, mainVars, histVars,
                   signalFlags>>

FindPrimaryNodeReturn ==
    /\ vpc = "verified"
    /\ probe_primary' = LastPrimary(pool_node_status)
    /\ vpc' = "returned"
    /\ UNCHANGED <<probe_answer, wal_upstream, detach_false_primary,
                   check_connectivity, pool_node_status>>
    /\ UNCHANGED <<backendVars, queueVars, lockVars, baseConf, exitVars, fileVars,
                   workerVars, followVars, logVars, mainVars, histVars,
                   signalFlags>>

InitVerify ==
    /\ InitShared([i \in Nodes |-> "CON_CONNECT_WAIT"])
    /\ SL_MODE = TRUE
    /\ use_watchdog = FALSE
    /\ follow_primary_command = FALSE
    /\ req_domain = QueueRequests
    /\ calls_left = 0
    /\ wd_left = 0
    /\ pc = "startup_probe"
    /\ InitPrivate
    /\ InitChildren([i \in Nodes |-> 0])
    /\ NoFile
    /\ NoWorkers
    /\ search_primary_node_timeout = 1
    /\ hist_depth = 0
    /\ ProbeInputs
    /\ pool_node_status = [i \in ProbeNodes |-> "POOL_NODE_STATUS_UNUSED"]
    /\ probe_primary = -1
    /\ vpc = "connected"

NextVerify ==
    \/ VerifyBackendNodeStatus
    \/ FindPrimaryNodeReturn

SpecVerify == InitVerify /\ [][NextVerify]_vars

(***************************************************************************)
(* Status persistence: the supervisor writes, a restart reads              *)
(***************************************************************************)
\* the files write_status_file() can have left behind
StatusFiles ==
    {NoStatusFile} \cup
    {write_status_file(st, NoStatusFile) :
        st \in {v \in [Nodes -> BACKEND_STATUS] : ~WriteSkipped(v)}}

WriteStatusFile ==
    /\ spc = "running"
    /\ status_file' = write_status_file(backend_status, status_file)
    /\ written_status' = IF WriteSkipped(backend_status) THEN written_status
                         ELSE [done |-> TRUE, st |-> backend_status]
    /\ spc' = "written"
    /\ UNCHANGED <<discard_status, probeVars>>
    /\ UNCHANGED <<backendVars, queueVars, lockVars, baseConf, exitVars, workerVars,
                   followVars, logVars, mainVars, histVars, signalFlags>>

\* the supervisor is started again: main() calls read_status_file()
RestartReadStatusFile ==
    /\ spc = "written"
    /\ LET r == read_status_file(status_file, discard_status)
       IN  /\ backend_status' = r.st
           /\ status_file' = r.file
    /\ spc' = "restarted"
    /\ UNCHANGED <<discard_status, written_status, probeVars>>
    /\ UNCHANGED <<quarantine, role, primary_node_id, main_node_id, queueVars,
                   lockVars, baseConf, exitVars, workerVars, followVars, logVars,
                   mainVars, histVars, signalFlags>>

InitStatusFile ==
    /\ \E st \in [Nodes -> BACKEND_STATUS] : InitShared(st)
    /\ SL_MODE = TRUE
    /\ use_watchdog = FALSE
    /\ follow_primary_command = FALSE
    /\ req_domain = QueueRequests
    /\ calls_left = 0
    /\ wd_left = 0
    /\ pc = "sleeping"
    /\ InitPrivate
    /\ InitChildren([i \in Nodes |-> 0])
    /\ NoProbe
    /\ NoWorkers
    /\ search_primary_node_timeout = 1
    /\ hist_depth = 0
    /\ status_file \in StatusFiles
    /\ discard_status \in BOOLEAN
    /\ written_status = [done |-> FALSE, st |-> [i \in Nodes |-> "CON_UNUSED"]]
    /\ spc = "running"

NextStatusFile ==
    \/ WriteStatusFile
    \/ RestartReadStatusFile

SpecStatusFile == InitStatusFile /\ [][NextStatusFile]_vars

(***************************************************************************)
(* Properties of the request queue (SpecQueue)                             *)
(***************************************************************************)
QueueLength == request_queue_tail - request_queue_head

\* a call of register_node_operation_request happens in this step
RegisterStep == calls_left' = calls_left - 1

\* C1: the queue never holds more than MAX_REQUEST_QUEUE_SIZE requests
\* (0 <= tail - head <= Q in every state), and a call of
\* register_node_operation_request made when the queue is full returns false and
\* leaves head, tail and every request slot unchanged.
C1_QueueBounded ==
    /\ [](0 <= QueueLength /\ QueueLength <= MAX_REQUEST_QUEUE_SIZE)
    /\ [][(RegisterStep /\ QueueLength = MAX_REQUEST_QUEUE_SIZE)
            => /\ reg_result' = "false"
               /\ UNCHANGED <<request_queue_head, request_queue_tail, request>>]_vars

\* a call was rejected and the queue is full
C1_Witness ==
    /\ reg_result = "false"
    /\ QueueLength = MAX_REQUEST_QUEUE_SIZE

\* the sequence numbers 1, 2, ... n
RECURSIVE UpTo(_)
UpTo(n) == IF n <= 0 THEN << >> ELSE Append(UpTo(n - 1), n)

\* C2: failover() dequeues the requests in the order in which their enqueues
\* succeeded: the dequeued sequence numbers are 1, 2, ... without gap or
\* repetition, and every request still queued sits unharmed in its slot.
C2_Fifo ==
    /\ deq_log = UpTo(request_queue_head + 1)
    /\ enq_count = request_queue_tail + 1
    /\ \A k \in (request_queue_head + 1) .. request_queue_tail :
          request_tag[QueueIndex(k)].seq = k + 1

\* three requests were dequeued and the ring has wrapped around
C2_Witness ==
    /\ Len(deq_log) >= 3
    /\ request_queue_tail >= MAX_REQUEST_QUEUE_SIZE

\* positions of the main process inside the loop of failover()
DrainPcs == {"drain", "process", "search", "commit"}

\* C3: Req_info->switching is true in every state of a drain, and it goes from
\* true to false only in a state in which the request queue is empty.
C3_SwitchingDuringDrain ==
    /\ [](pc \in DrainPcs => (Req_switching /\ switching))
    /\ [][(Req_switching /\ ~Req_switching')
            => /\ request_queue_head = request_queue_tail
               /\ request_queue_head' = request_queue_tail']_vars

\* a drain that processed a request has ended
C3_Witness ==
    /\ pc = "drain_end"
    /\ ~Req_switching
    /\ Len(deq_log) >= 1

\* slots that hold a request not yet dequeued
QueuedSlots ==
    {QueueIndex(k) : k \in (request_queue_head + 1) .. request_queue_tail}

\* C4: a request whose producer read switching == true (and therefore sent no
\* signal) is never left in the queue with switching false: the drain in
\* progress dequeues it before it clears switching.
C4_EnqueuedDuringDrainIsDrained ==
    \A i \in QueuedSlots : request_tag[i].fip => Req_switching

\* a request enqueued during a drain has been dequeued and the drain has ended
C4_Witness ==
    /\ ~Req_switching
    /\ \E i \in Slots :
          /\ request_tag[i].fip
          /\ i \notin QueuedSlots
          /\ \E k \in 1 .. Len(deq_log) : deq_log[k] = request_tag[i].seq

(***************************************************************************)
(* Properties of the follow-primary lock (SpecLock)                        *)
(***************************************************************************)
Holders == {p \in LockProcs : lpc[p] = "holding"}

\* C5: the follow-primary lock has at most one holder: follow_primary_count is
\* 0 or 1, at most one local process is between its acquire and its release,
\* and none is while the lock is held remotely.
C5_OneHolder ==
    /\ follow_primary_count \in {0, 1}
    /\ Cardinality(Holders) <= 1
    /\ Holders # {} => (follow_primary_count = 1
                        /\ ~follow_primary_lock_held_remotely)

\* one local process holds the lock, another one sleeps for it and a remote
\* request is pending
C5_Witness ==
    /\ Holders # {}
    /\ \E p \in LockProcs : lpc[p] = "sleeping"
    /\ follow_primary_lock_pending

\* a lock operation of the given kind happens in this step
LockStep(op, remote_request) ==
    /\ lock_ops' = lock_ops + 1
    /\ last_op'.op \in op
    /\ last_op'.remote_request = remote_request

\* C6: pool_release_follow_primary_lock(false) hands the lock to the remote node
\* when a remote request is pending (count 1, held remotely, pending cleared) and
\* frees it otherwise (count 0, not held remotely).
C6_LocalRelease ==
    [][LockStep({"release"}, FALSE)
        => IF follow_primary_lock_pending
           THEN /\ follow_primary_count' = 1
                /\ follow_primary_lock_held_remotely'
                /\ ~follow_primary_lock_pending'
           ELSE /\ follow_primary_count' = 0
                /\ ~follow_primary_lock_held_remotely'
                /\ ~follow_primary_lock_pending']_vars

\* a local release has passed the lock to the remote node
C6_Witness ==
    /\ last_op.op = "release"
    /\ ~last_op.remote_request
    /\ follow_primary_count = 1
    /\ follow_primary_lock_held_remotely

\* C7: pool_release_follow_primary_lock(true) frees only a remotely held lock,
\* leaves count and held_remotely alone when the lock is held locally or free,
\* and always clears the pending flag.
C7_RemoteRelease ==
    [][LockStep({"release"}, TRUE)
        => /\ IF follow_primary_lock_held_remotely
              THEN /\ follow_primary_count' = 0
                   /\ ~follow_primary_lock_held_remotely'
              ELSE UNCHANGED <<follow_primary_count,
                               follow_primary_lock_held_remotely>>
           /\ ~follow_primary_lock_pending']_vars

\* a remote release arrived while a local process held the lock, and the lock
\* is still held
C7_Witness ==
    /\ last_op.op = "release"
    /\ last_op.remote_request
    /\ Holders # {}
    /\ follow_primary_count = 1

\* C8: pool_acquire_follow_primary_lock(block, true) never sleeps; when the lock
\* is held it returns false, sets the pending flag if the holder is local and
\* changes nothing if the lock is already held remotely.
C8_RemoteAcquire ==
    /\ [](lpc[RemoteProc] # "sleeping")
    /\ [][(LockStep({"acquire"}, TRUE) /\ follow_primary_count > 0)
            => /\ last_op'.result = "refused"
               /\ IF follow_primary_lock_held_remotely
                  THEN UNCHANGED <<follow_primary_count,
                                   follow_primary_lock_held_remotely,
                                   follow_primary_lock_pending>>
                  ELSE /\ follow_primary_lock_pending'
                       /\ UNCHANGED <<follow_primary_count,
                                      follow_primary_lock_held_remotely>>]_vars

\* a remote request that asked to block was refused and is pending
C8_Witness ==
    /\ last_op.op = "acquire"
    /\ last_op.remote_request
    /\ last_op.block
    /\ last_op.result = "refused"
    /\ follow_primary_lock_pending

(***************************************************************************)
(* Properties of primary_node_id and main_node_id (Spec)                   *)
(***************************************************************************)
NodeIdOrNone == {-1} \cup Nodes

\* C9 as stated: in every state after the shared memory is initialised
\* main_node_id and primary_node_id are -1 or in [0, NUM_BACKENDS).
C9_Original ==
    /\ main_node_id \in NodeIdOrNone
    /\ primary_node_id \in NodeIdOrNone

\* C9 amended: main_node_id is -1 or in [0, NUM_BACKENDS); primary_node_id is
\* -2 (the value initialize_shared_mem_objects stores, also the value a leader
\* that has not finished its startup reports), -1 or in [0, NUM_BACKENDS).
C9_NodeIdRange ==
    /\ main_node_id \in NodeIdOrNone
    /\ primary_node_id \in {-2} \cup NodeIdOrNone

\* a request was processed, a primary is known and the watchdog sync has run
C9_Witness ==
    /\ pc = "sleeping"
    /\ Len(deq_log) >= 1
    /\ wd_left = 0
    /\ primary_node_id >= 0
    /\ main_node_id >= 0

\* C10 as stated: whenever primary_node_id >= 0 the backend with that id has
\* role PRIMARY.
C10_Original ==
    primary_node_id >= 0 => role[primary_node_id] = "ROLE_PRIMARY"

\* failover() executes "Save primary node id" in this step
SavePrimaryStep == pc = "commit" /\ pc' # "commit"

\* C10 amended: when failover() saves a primary_node_id that differs from the
\* one it replaces and is >= 0, the backend with that id has role PRIMARY
\* afterwards.
C10_SavedPrimaryHasRole ==
    [][(SavePrimaryStep /\ primary_node_id' # primary_node_id
                        /\ primary_node_id' >= 0)
        => role'[primary_node_id'] = "ROLE_PRIMARY"]_vars

\* failover() has processed a request and the primary has role PRIMARY
C10_Witness ==
    /\ pc = "drain"
    /\ Len(deq_log) >= 1
    /\ primary_node_id >= 0
    /\ role[primary_node_id] = "ROLE_PRIMARY"

(***************************************************************************)
(* Properties of failover() (SpecFailover)                                 *)
(***************************************************************************)
PrimaryRoles == {i \in Nodes : role[i] = "ROLE_PRIMARY"}

\* failover() is not running and no request is waiting
FullyProcessed ==
    /\ pc = "sleeping"
    /\ QueueEmpty(request_queue_head, request_queue_tail)

\* C11: in streaming replication mode, once every request is processed, at
\* most one backend has the role PRIMARY (every probe round of the model
\* reports at most one primary)
C11_AtMostOnePrimaryRole ==
    (SL_MODE /\ FullyProcessed) => Cardinality(PrimaryRoles) <= 1

\* the last two requests failover() has processed, in this order
LastTwo(k1, k2) ==
    /\ Len(hist) >= 2
    /\ hist[Len(hist) - 1].done
    /\ hist[Len(hist)].done
    /\ hist[Len(hist) - 1].req.kind = k1
    /\ hist[Len(hist)].req.kind = k2
    /\ Len(hist[Len(hist) - 1].req.node_id) = 1
    /\ hist[Len(hist)].req.node_id = hist[Len(hist) - 1].req.node_id
    /\ VALID_BACKEND(hist[Len(hist) - 1].before.st, hist[Len(hist) - 1].before.qr,
                     hist[Len(hist)].req.node_id[1])
Prev == hist[Len(hist) - 1]
Last == hist[Len(hist)]

DownThenUp ==
    /\ LastTwo("NODE_DOWN_REQUEST", "NODE_UP_REQUEST")
    /\ "REQ_DETAIL_UPDATE" \notin Last.req.request_details

QuarantineThenUpdate ==
    /\ LastTwo("NODE_QUARANTINE_REQUEST", "NODE_UP_REQUEST")
    /\ "REQ_DETAIL_UPDATE" \in Last.req.request_details

\* C13: after NODE_QUARANTINE([x]) and NODE_UP([x]) with UPDATE for a valid
\* backend x, x is valid again (status CONNECT_WAIT, not quarantined), x is
\* the primary again if it was before the quarantine, and the NODE_UP ran
\* neither the failback command nor the primary finder
C13_QuarantineThenUpdate ==
    QuarantineThenUpdate
        => LET x == Last.req.node_id[1]
           IN  /\ Last.after.st[x] = "CON_CONNECT_WAIT"
               /\ ~Last.after.qr[x]
               /\ Prev.before.prim = x => Last.after.prim = x
               /\ ~Last.failback
               /\ Last.finder = "none"

C13_Witness ==
    /\ QuarantineThenUpdate
    /\ Prev.before.prim = Last.req.node_id[1]
    /\ Prev.after.prim = -1
    /\ Last.after.prim = Last.req.node_id[1]
    /\ Prev.before.st[Last.req.node_id[1]] = "CON_CONNECT_WAIT"
    /\ ~Last.after.qr[Last.req.node_id[1]]

\* line i of the file is "up" iff status[i] is UP or CONNECT_WAIT, "down" iff
\* it is DOWN, "unused" otherwise
FileAgrees(st, file) ==
    /\ file.exists
    /\ \A i \in Nodes :
          /\ file.line[i] = "up" <=> st[i] \in {"CON_UP", "CON_CONNECT_WAIT"}
          /\ file.line[i] = "down" <=> st[i] = "CON_DOWN"
          /\ file.line[i] = "unused" <=> st[i] = "CON_UNUSED"

WritingStep ==
    \/ /\ pc = "process"
       /\ pc' \in {"search", "commit"}
       /\ \/ cur.kind = "NODE_DOWN_REQUEST"
          \/ /\ cur.kind = "NODE_UP_REQUEST"
             /\ "REQ_DETAIL_UPDATE" \notin cur.request_details
    \/ pc = "commit" /\ backend_status' # backend_status
    \/ pc \in {"startup_search", "startup_probe"} /\ pc' = "first_check"
    \/ pc' = "exited"

WriteStep == spc = "running" /\ spc' = "written"
RestartStep == spc = "written" /\ spc' = "restarted"
Serving(st) == \E i \in Nodes : st[i] \in {"CON_UP", "CON_CONNECT_WAIT"}

AnsweredPrimary == {i \in ProbeNodes : probe_answer[i] = "f"}
AnsweredStandby == {i \in ProbeNodes : probe_answer[i] = "t"}
LowestAnsweredPrimary ==
    CHOOSE i \in AnsweredPrimary : \A j \in AnsweredPrimary : i <= j
HighestAnsweredPrimary ==
    CHOOSE i \in AnsweredPrimary : \A j \in AnsweredPrimary : j <= i

\* the lowest-indexed backend that answered as primary is the only one left
\* PRIMARY, the others are INVALID (detach_false_primary) or UNUSED, and
\* find_primary_node() returns the lowest index
OnlyLowestPrimaryLeft ==
    /\ \A i \in AnsweredPrimary :
          pool_node_status[i] =
              IF i = LowestAnsweredPrimary THEN "POOL_NODE_STATUS_PRIMARY"
              ELSE IF detach_false_primary THEN "POOL_NODE_STATUS_INVALID"
              ELSE "POOL_NODE_STATUS_UNUSED"
    /\ probe_primary = LowestAnsweredPrimary

\* C20 as stated: whenever two or more backends answer as primary, with any
\* number of standbys and either setting of detach_false_primary, only the
\* lowest-indexed one stays PRIMARY and find_primary_node() returns it
C20_Original ==
    (vpc = "returned" /\ Cardinality(AnsweredPrimary) >= 2)
        => OnlyLowestPrimaryLeft

\* C20: when two or more backends answer as primary and no backend answers as
\* standby, only the lowest-indexed one stays PRIMARY (the others INVALID with
\* detach_false_primary, UNUSED without) and find_primary_node() returns it;
\* when some backend answers as standby and detach_false_primary is off or no
\* backend is a 9.6 server, every one of them stays PRIMARY and
\* find_primary_node() returns the highest index; otherwise a primary that does
\* not own every standby is INVALID exactly when another primary owns them all,
\* and find_primary_node() returns the highest index still PRIMARY
C20_SplitBrainWithoutStandby ==
    (vpc = "returned" /\ Cardinality(AnsweredPrimary) >= 2)
        => /\ AnsweredStandby = {} => OnlyLowestPrimaryLeft
           /\ (AnsweredStandby # {}
                 /\ (~detach_false_primary \/ ~check_connectivity))
                => /\ \A i \in AnsweredPrimary :
                         pool_node_status[i] = "POOL_NODE_STATUS_PRIMARY"
                   /\ probe_primary = HighestAnsweredPrimary
           /\ (AnsweredStandby # {} /\ detach_false_primary
                 /\ check_connectivity)
                => LET owns(i) == \A j \in AnsweredStandby : wal_upstream[j] = i
                       left == {i \in AnsweredPrimary :
                                   pool_node_status[i] = "POOL_NODE_STATUS_PRIMARY"}
                   IN  /\ \A i \in AnsweredPrimary :
                             pool_node_status[i] =
                                 IF ~owns(i) /\ \E k \in AnsweredPrimary : owns(k)
                                 THEN "POOL_NODE_STATUS_INVALID"
                                 ELSE "POOL_NODE_STATUS_PRIMARY"
                       /\ \/ left = {} /\ probe_primary = -1
                          \/ /\ probe_primary \in left
                             /\ \A i \in left : i <= probe_primary

C20_Witness ==
    /\ vpc = "returned"
    /\ Cardinality(AnsweredPrimary) >= 2
    /\ AnsweredStandby = {}
    /\ detach_false_primary
    /\ probe_primary = 0
    /\ \E i \in ProbeNodes : pool_node_status[i] = "POOL_NODE_STATUS_INVALID"

(***************************************************************************)
(* Properties of the restart of the query workers (SpecRestart)            *)
(***************************************************************************)
\* the last request was NODE_DOWN([s], SWITCHOVER) in streaming replication
\* mode, of a valid backend s other than primary_node_id, and is processed
SwitchoverOfStandby ==
    /\ SL_MODE
    /\ hist # << >>
    /\ Last.done
    /\ Last.req.kind = "NODE_DOWN_REQUEST"
    /\ Last.req.request_details = {"REQ_DETAIL_SWITCHOVER"}
    /\ Len(Last.req.node_id) = 1
    /\ VALID_BACKEND(Last.before.st, Last.before.qr, Last.req.node_id[1])
    /\ Last.req.node_id[1] # Last.before.prim

\* primary_node_id names a valid backend before the last request
PrimaryWasValid ==
    /\ Last.before.prim >= 0
    /\ VALID_BACKEND(Last.before.st, Last.before.qr, Last.before.prim)

\* s is down, the primary is kept and find_primary_node_repeatedly() was not
\* called
StandbyDetached ==
    /\ Last.after.st[Last.req.node_id[1]] = "CON_DOWN"
    /\ Last.after.prim = Last.before.prim
    /\ Last.finder = "none"

\* the slots with a process: killed and forked again iff the slot uses s;
\* a slot that does not use s keeps its pid and gets need_to_restart
SelectiveRestart ==
    \A c \in children :
        /\ (Last.pids[c].pid # 0 /\ UsesNode(c, Last.req.node_id[1]))
             <=> (c \in Last.killed /\ c \in Last.forked)
        /\ c \in Last.forked <=> Last.workers[c].pid # Last.pids[c].pid
        /\ ~UsesNode(c, Last.req.node_id[1])
             => /\ c \notin Last.killed
                /\ Last.workers[c].pid = Last.pids[c].pid
                /\ Last.workers[c].need_to_restart

\* a slot that uses s gets need_to_restart set as well or is left as it was
SlotWithoutProcess ==
    \A c \in children :
        (UsesNode(c, Last.req.node_id[1]) /\ Last.pids[c].pid = 0)
            => Last.workers[c] = Last.pids[c]

\* C18 as stated: NODE_DOWN([s], SWITCHOVER) of a valid backend s other than
\* primary_node_id sets s down, keeps the primary without calling the finder,
\* restarts exactly the workers that use s and sets need_to_restart in every
\* other slot.
C18_Original ==
    SwitchoverOfStandby
        => /\ StandbyDetached
           /\ SelectiveRestart
           /\ \A c \in children :
                 c \notin Last.forked => Last.workers[c].need_to_restart

\* C18 amended: when primary_node_id names a valid backend other than s,
\* NODE_DOWN([s], SWITCHOVER) of a valid s sets s down, keeps the primary and
\* does not call the finder; a slot with a process is killed and forked again
\* iff it uses s, a slot that does not use s keeps its pid and gets
\* need_to_restart, and a slot that uses s but has no process is left as it is.
C18_SwitchoverOfStandby ==
    (SwitchoverOfStandby /\ PrimaryWasValid)
        => /\ StandbyDetached
           /\ SelectiveRestart
           /\ SlotWithoutProcess

C18_Witness ==
    /\ SwitchoverOfStandby
    /\ PrimaryWasValid
    /\ \E c, d \in children :
          /\ c \in Last.forked
          /\ Last.workers[c].pid # Last.pids[c].pid
          /\ d \notin Last.killed
          /\ Last.pids[d].pid # 0
          /\ Last.workers[d].pid = Last.pids[d].pid
          /\ Last.workers[d].need_to_restart

\* the last request is processed and has changed primary_node_id
PrimaryChanged ==
    /\ hist # << >>
    /\ Last.done
    /\ Last.after.prim # Last.before.prim

\* every slot with a process was killed and forked again by the last request
FullRestart ==
    \A c \in children :
        Last.pids[c].pid # 0
            => /\ c \in Last.killed
               /\ c \in Last.forked
               /\ Last.workers[c].pid # Last.pids[c].pid

\* C19: whenever one request changes primary_node_id, every query-worker slot
\* with a non-zero pid is killed and forked again during that request.
C19_PrimaryChangeRestartsAll == PrimaryChanged => FullRestart

(***************************************************************************)
(* Properties of failover() when every backend is down (SpecDrain)         *)
(***************************************************************************)
\* get_next_main_node() is -1 when every backend is DOWN or UNUSED
NoMainNodeWhenAllDown ==
    check_all_backend_down(backend_status)
        => /\ get_next_main_node(backend_status, quarantine) = -1
           /\ pc \in {"search", "commit"} => new_main_node = -1

\* failover() calls find_primary_node_repeatedly() while every backend is DOWN
\* or UNUSED
FinderCalledAllDown ==
    /\ pc = "process"
    /\ pc' \in {"search", "commit"}
    /\ hist' # << >>
    /\ hist'[Len(hist')].finder # "none"
    /\ check_all_backend_down(backend_status')

\* the drain finds the queue empty: every request that was enqueued has been
\* dequeued once, in the order of the enqueues
DrainEnds ==
    /\ pc = "drain"
    /\ pc' = "drain_end"

EachDequeuedOnce ==
    /\ ~switching'
    /\ QueueEmpty(request_queue_head', request_queue_tail')
    /\ deq_log' = UpTo(enq_count')

\* failover() is running with every backend DOWN or UNUSED
DrainingAllDown ==
    /\ pc \in {"drain", "process", "commit"}
    /\ check_all_backend_down(backend_status)

\* C16 as stated: with every backend DOWN or UNUSED get_next_main_node() is
\* -1, the finder returns -1 without probing or sleeping, and failover() ends
\* the drain with switching false after each request was processed once.
C16_Original ==
    /\ []NoMainNodeWhenAllDown
    /\ [][FinderCalledAllDown => (pc' = "commit" /\ new_primary' = -1)]_vars
    /\ [][DrainEnds => EachDequeuedOnce]_vars
    /\ DrainingAllDown ~> (pc = "drain_end"
                             \/ ~check_all_backend_down(backend_status))

\* C16 amended: as C16, but while follow_primary_ongoing is set in streaming
\* replication mode the finder returns the stored primary_node_id instead of
\* -1, still without probing or sleeping.
C16_AllDownTerminates ==
    /\ []NoMainNodeWhenAllDown
    /\ [][FinderCalledAllDown
            => /\ pc' = "commit"
               /\ new_primary' = IF SL_MODE /\ follow_primary_ongoing
                                 THEN primary_node_id'
                                 ELSE -1]_vars
    /\ [][DrainEnds => EachDequeuedOnce]_vars
    /\ DrainingAllDown ~> (pc = "drain_end"
                             \/ ~check_all_backend_down(backend_status))

C16_Witness ==
    /\ SL_MODE
    /\ pc = "sleeping"
    /\ ~switching
    /\ hist # << >>
    /\ Last.done
    /\ Last.finder = "gave_up"
    /\ check_all_backend_down(Last.after.st)
    /\ check_all_backend_down(backend_status)
    /\ primary_node_id = -1
    /\ deq_log = UpTo(MaxSeq)

(***************************************************************************)
(* Properties of the retry loop of the finder (SpecFinder)                 *)
(***************************************************************************)
\* C17: with search_primary_node_timeout = 0 find_primary_node_repeatedly()
\* does not keep retrying once every backend is down, also when the backends
\* become all-down while the retry loop is running: no round of the loop is
\* followed by another one while no backend is valid.
C17_NoRetryWhenAllDown ==
    (search_primary_node_timeout = 0 /\ pc \in {"startup_probe", "search"})
        => idle_rounds = 0

(***************************************************************************)
(* Properties of sync_backend_from_watchdog (SpecSync)                     *)
(***************************************************************************)
\* the last entry of the history is a call of sync_backend_from_watchdog()
\* that got a report from the leader
SyncDone ==
    /\ hist # << >>
    /\ Last.req.kind = "SYNC"

\* the leader reports -1 while the local primary is not down after the
\* reconciliation of the statuses
LeaderPrimaryQuarantined ==
    /\ Last.req.report.primary_node_id = -1
    /\ Last.before.prim >= 0
    /\ Last.after.st[Last.before.prim] # "CON_DOWN"

\* C21: in streaming replication mode the sync adopts the leader's
\* primary_node_id whenever it differs, except that the local primary is kept
\* when the leader reports -1 and the local primary is not DOWN after the
\* reconciliation; when the sync changes the primary outside startup, every
\* slot with a process is killed and forked again.
C21_SyncAdoptsPrimary ==
    (SyncDone /\ SL_MODE)
        => /\ Last.after.prim =
                 IF LeaderPrimaryQuarantined
                 THEN Last.before.prim
                 ELSE Last.req.report.primary_node_id
           /\ (Last.after.prim # Last.before.prim
                 /\ Last.req.processState # "INITIALIZING")
                => \A c \in children :
                      Last.pids[c].pid # 0
                          => Last.workers[c].pid # Last.pids[c].pid

C21_Witness ==
    /\ SyncDone
    /\ SL_MODE
    /\ Last.req.processState # "INITIALIZING"
    /\ Last.before.prim = 0
    /\ Last.after.prim = 1
    /\ Last.after.st[0] = "CON_DOWN"
    /\ \E c \in children : /\ Last.pids[c].pid # 0
                           /\ ~UsesNode(c, 0)
                           /\ Last.workers[c].pid # Last.pids[c].pid

(***************************************************************************)
(* Properties of REQUEST_INFO_SEM (Spec)                                   *)
(***************************************************************************)
\* a step writes the request queue
QueueWritten ==
    \/ request_queue_head' # request_queue_head
    \/ request_queue_tail' # request_queue_tail
    \/ request' # request

\* a step writes primary_node_id or main_node_id, or sets switching
NodeIdsWritten ==
    \/ primary_node_id' # primary_node_id
    \/ main_node_id' # main_node_id
    \/ ~Req_switching /\ Req_switching'

\* a step resets switching
SwitchingCleared == Req_switching /\ ~Req_switching'

Logged(what) == Cardinality({k \in 1 .. Len(exit_log) : exit_log[k] = what})

\* exiting was set at most once and stays set, and terminate_all_childrens()
\* ran at most once, called by exit_handler
ShutdownAtMostOnce ==
    /\ Logged("exiting") <= 1
    /\ Logged("exiting") = 1 <=> exiting = 1
    /\ Logged("exit_handler") <= 1
    /\ Logged("system_will_go_down") = 0

\* C23: for any interleaving of SIGTERM / SIGINT / SIGQUIT deliveries, also
\* one arriving while exit_handler runs, exiting goes from 0 to 1 exactly
\* once, terminate_all_childrens() is executed by at most one invocation of
\* exit_handler and is not run again by system_will_go_down()
C23_ShutdownOnce ==
    /\ []ShutdownAtMostOnce
    /\ (exit_signals > 0) ~> (exiting = 1)

\* the part of C23 that bounds the number of shutdowns
C23_AtMostOnce == ShutdownAtMostOnce

\* a second signal arrived while the first handler held MAIN_EXIT_HANDLER_SEM
\* and had not yet set exiting: the nested handler waits for the semaphore
C23_HandlerBlocked ==
    /\ Len(exit_stack) >= 2
    /\ exit_stack[Len(exit_stack)] = "lock"
    /\ exit_sem = 0
    /\ exiting = 0

\* a signal arrived while exit_handler was running and the children were
\* terminated by one invocation
C23_Witness ==
    /\ Len(exit_stack) >= 2
    /\ Logged("exit_handler") = 1

(***************************************************************************)
(* The exit-code policy of reaper                                          *)
(***************************************************************************)
Reaped == {reap.log[k] : k \in 1 .. Len(reap.log)}

\* the policy: FATAL stops the supervisor, NO_RESTART clears the slot and
\* forks nothing, any other exit forks a replacement
PolicyApplied(e) ==
    /\ e.status = "FATAL" => e.shutdown_system /\ processState = "EXITING"
    /\ e.status = "NO_RESTART" => e.new_pid = 0
    /\ e.status \in {"EXIT", "SIGNAL"} => e.new_pid \notin {0, e.pid}

Processed == {hist[k] : k \in 1 .. Len(hist)}
LowestValid(B) == get_next_main_node(B.st, B.qr)

\* failover() stores the main node and is done with the request
FailoverFinished == pc = "commit" /\ pc' = "drain"

\* C25: after failover() finishes processing an accepted request,
\* main_node_id is the lowest-indexed valid backend, -1 when there is none
C25_MainNodeLowestValid ==
    [][FailoverFinished =>
          main_node_id' = get_next_main_node(backend_status', quarantine')]_vars

\* the part of C25 for a table with a valid backend
C25_MainNodeValid ==
    [][FailoverFinished
          /\ get_next_main_node(backend_status', quarantine') >= 0 =>
          main_node_id' = get_next_main_node(backend_status', quarantine')]_vars

\* failover() is about to store a main node that a watchdog sync set DOWN
\* after get_next_main_node() had returned it
C25_StaleNewMainNode ==
    /\ pc = "commit"
    /\ new_main_node >= 0
    /\ backend_status[new_main_node] = "CON_DOWN"
    /\ get_next_main_node(backend_status, quarantine) >= 0

\* without the watchdog: after failover() processed an accepted request,
\* main_node_id is the lowest-indexed valid backend when there is one; when no
\* backend is valid main_node_id keeps the value it had before the request
C25_MainNode ==
    \A h \in Processed :
        h.done /\ h.req.kind # "SYNC" =>
            h.after.main = IF LowestValid(h.after) >= 0
                           THEN LowestValid(h.after)
                           ELSE h.before.main

\* a NODE_DOWN took the main node down and another backend took over, and a
\* NODE_DOWN took the last valid backend down
C25_BothCases ==
    /\ \E h \in Processed :
          /\ h.done /\ h.req.kind = "NODE_DOWN_REQUEST"
          /\ h.after.st[h.before.main] = "CON_DOWN"
          /\ h.after.main # h.before.main
    /\ \E h \in Processed :
          /\ h.done /\ h.req.kind = "NODE_DOWN_REQUEST"
          /\ LowestValid(h.after) = -1
          /\ h.after.main = h.before.main

(***************************************************************************)
(* Quarantine and status                                                   *)
(***************************************************************************)
\* C26: in every reachable state no backend is quarantined with status
\* CONNECT_WAIT or UP; every accepted NODE_UP leaves its node not quarantined
C26_NoQuarantinedServing ==
    \A i \in Nodes :
        quarantine[i] => backend_status[i] \notin {"CON_CONNECT_WAIT", "CON_UP"}

\* a NODE_UP without UPDATE was accepted for a quarantined backend and left
\* it CONNECT_WAIT and quarantined
C26_AttachedQuarantined ==
    \E h \in Processed :
        /\ h.done /\ h.req.kind = "NODE_UP_REQUEST"
        /\ "REQ_DETAIL_UPDATE" \notin h.req.request_details
        /\ LET x == h.req.node_id[1]
           IN  /\ h.before.qr[x] /\ h.before.st[x] = "CON_DOWN"
               /\ h.after.qr[x] /\ h.after.st[x] = "CON_CONNECT_WAIT"

(***************************************************************************)
(* Rejected requests                                                       *)
(***************************************************************************)
\* failover() validates the request it dequeued
ValidationStep ==
    pc = "process" /\ pc' # "process" /\ cur.kind # "CLOSE_IDLE_REQUEST"

\* the request goes no further than the validation
Rejected ==
    /\ pc' = "drain"
    /\ UNCHANGED <<backendVars, status_file, process_info, hist,
                   need_to_restart_children, partial_restart, follow_waiting>>

Valid(i) == VALID_BACKEND(backend_status, quarantine, i)
Targets == {cur.node_id[k] : k \in 1 .. Len(cur.node_id)}

SetDown(h) ==
    {h.req.node_id[k] : k \in 1 .. Len(h.req.node_id)}
        \cap {i \in Nodes : h.before.qr[i]
                              \/ VALID_BACKEND(h.before.st, h.before.qr, i)}

\* C28: failover_command is executed once for each node a NODE_DOWN request
\* set DOWN and for no other request; failback_command is executed once for
\* each accepted NODE_UP without UPDATE and for no other request
C28_CommandsOncePerNode ==
    \A h \in Processed :
        h.req.kind # "SYNC" =>
            /\ h.failover_cmd = IF h.req.kind = "NODE_DOWN_REQUEST"
                                THEN SetDown(h) ELSE {}
            /\ h.failback <=> /\ h.req.kind = "NODE_UP_REQUEST"
                              /\ "REQ_DETAIL_UPDATE" \notin h.req.request_details

\* the part of C28 about the requests other than NODE_DOWN
C28_OtherRequests ==
    \A h \in Processed :
        h.req.kind \notin {"SYNC", "NODE_DOWN_REQUEST"} =>
            /\ h.failover_cmd = {}
            /\ h.failback <=> /\ h.req.kind = "NODE_UP_REQUEST"
                              /\ "REQ_DETAIL_UPDATE" \notin h.req.request_details

\* a NODE_DOWN request ran failover_command for a node that an earlier
\* request of the same drain had set DOWN
C28_CommandRepeated ==
    \E h \in Processed :
        /\ h.req.kind = "NODE_DOWN_REQUEST"
        /\ \E i \in h.failover_cmd : h.before.st[i] = "CON_DOWN"
                                       /\ ~h.before.qr[i]

(***************************************************************************)
(* The follow-primary degeneration                                         *)
(***************************************************************************)
Finished == {h \in Processed : h.done /\ h.req.kind # "SYNC"}
ReqTargets(h) == {h.req.node_id[k] : k \in 1 .. Len(h.req.node_id)}

\* every backend other than the new primary is DOWN
OthersDown(h) ==
    \A i \in Nodes \ {h.after.prim} : h.after.st[i] = "CON_DOWN"

\* backends the request did not target and that went DOWN
Untargeted(h) ==
    {i \in Nodes \ ReqTargets(h) :
        h.before.st[i] # "CON_DOWN" /\ h.after.st[i] = "CON_DOWN"}

\* the request took the primary down
TookPrimaryDown(h) ==
    /\ h.req.kind \in {"NODE_DOWN_REQUEST", "NODE_QUARANTINE_REQUEST"}
    /\ h.before.prim \in ReqTargets(h)
    /\ h.before.st[h.before.prim] # "CON_DOWN"

C29_PromoteUnconfigured ==
    \E h \in Finished :
        /\ h.req.kind = "PROMOTE_NODE_REQUEST" /\ ~follow_primary_command
        /\ Untargeted(h) # {} /\ ~h.follow_forked

(***************************************************************************)
(* The number of follow-primary children                                   *)
(***************************************************************************)
\* the follow-primary children that failover() forked and that have not
\* finished: those waiting for the follow primary lock and the one holding it
FollowChildren == follow_waiting + (IF follow_primary_ongoing THEN 1 ELSE 0)

\* C30: at any time at most one follow-primary child exists
C30_AtMostOneFollowChild == FollowChildren <= 1

\* failover() forks a follow-primary child only when none exists
C30_NoForkWhileChildLives ==
    [][follow_waiting' > follow_waiting => FollowChildren = 0]_vars

\* a second child was forked while the first one runs the follow primary
\* commands
C30_SecondChildForked == follow_primary_ongoing /\ follow_waiting >= 1

(***************************************************************************)
(* The connectivity check of verify_backend_node_status() (SpecVerify)     *)
(***************************************************************************)
\* the connectivity check ran: detach_false_primary, a 9.6 server, at least
\* one primary and one standby answered
ConnectivityChecked ==
    /\ vpc # "connected"
    /\ detach_false_primary /\ check_connectivity
    /\ AnsweredPrimary # {} /\ AnsweredStandby # {}

\* the streaming standbys whose conninfo names backend i
Streaming(i) == {j \in AnsweredStandby : wal_upstream[j] = i}

PartialOwners ==
    {i \in AnsweredPrimary :
        Cardinality(Streaming(i)) < Cardinality(AnsweredStandby)}

\* C31 as stated: every backend that answered as primary and owns fewer
\* streaming standbys than there are standbys is marked INVALID, also when no
\* primary owns all standbys
C31_Original ==
    ConnectivityChecked =>
        \A i \in PartialOwners : pool_node_status[i] = "POOL_NODE_STATUS_INVALID"

\* C31: with detach_false_primary on, a 9.6 server and at least one standby, a
\* backend that answered as primary and owns fewer streaming standbys than
\* there are standbys is marked INVALID exactly when some primary owns all
\* standbys; when no primary owns them all, every primary stays PRIMARY
C31_FalsePrimaryNeedsTruePrimary ==
    ConnectivityChecked =>
        \A i \in AnsweredPrimary :
            pool_node_status[i] =
                IF i \in PartialOwners /\ AnsweredPrimary \ PartialOwners # {}
                THEN "POOL_NODE_STATUS_INVALID"
                ELSE "POOL_NODE_STATUS_PRIMARY"

\* a false primary was marked INVALID next to the primary that owns the standby
C31_Witness ==
    /\ ConnectivityChecked
    /\ \E i \in PartialOwners : pool_node_status[i] = "POOL_NODE_STATUS_INVALID"
    /\ AnsweredPrimary \ PartialOwners # {}

\* the only primary owns no standby and stays PRIMARY
C31_LonePrimaryKept ==
    /\ ConnectivityChecked
    /\ Cardinality(AnsweredPrimary) = 1
    /\ \E i \in PartialOwners : pool_node_status[i] = "POOL_NODE_STATUS_PRIMARY"

(***************************************************************************)
(* The statuses sync_backend_from_watchdog() writes (SpecSync)             *)
(***************************************************************************)
\* the status the reconciliation leaves when only a DOWN backend is raised
StatedStatus(local, leader) ==
    IF leader = "CON_DOWN" THEN "CON_DOWN"
    ELSE IF leader \in {"CON_CONNECT_WAIT", "CON_UP"} /\ local = "CON_DOWN"
    THEN "CON_CONNECT_WAIT"
    ELSE local

\* the status the reconciliation leaves: the leader's DOWN, CONNECT_WAIT for
\* the leader's UP or CONNECT_WAIT, the local one otherwise
SyncedStatus(local, leader) ==
    IF leader = "CON_DOWN" THEN "CON_DOWN"
    ELSE IF leader \in {"CON_CONNECT_WAIT", "CON_UP"} THEN "CON_CONNECT_WAIT"
    ELSE local

\* C32 as stated: status[i] changes only from not DOWN to DOWN (leader DOWN)
\* and from DOWN to CONNECT_WAIT (leader UP or CONNECT_WAIT); a local UP stays
\* UP; quarantined[i] is cleared
C32_Original ==
    SyncDone =>
        \A i \in Nodes :
            /\ Last.after.st[i] =
                   StatedStatus(Last.before.st[i], Last.req.report.backend_status[i])
            /\ ~Last.after.qr[i]

\* C32: sync_backend_from_watchdog sets status[i] to DOWN when the leader
\* reports DOWN, and to CONNECT_WAIT when the leader reports UP or
\* CONNECT_WAIT, also when the local status is UP; status[i] is unchanged only
\* if it has that value already or the leader reports another status;
\* quarantined[i] is cleared for every backend the leader reports
C32_SyncStatuses ==
    /\ \A local, leader \in BACKEND_STATUS :
          SyncStatus(local, leader) = SyncedStatus(local, leader)
    /\ SyncDone =>
          \A i \in Nodes :
              /\ Last.after.st[i] =
                     SyncedStatus(Last.before.st[i],
                                  Last.req.report.backend_status[i])
              /\ ~Last.after.qr[i]

\* a backend that was UP locally and UP on the leader is CONNECT_WAIT after
\* the sync, and another went DOWN with the leader
C32_Witness ==
    /\ SyncDone
    /\ \E i \in Nodes :
          /\ Last.before.st[i] = "CON_UP"
          /\ Last.req.report.backend_status[i] = "CON_UP"
          /\ Last.after.st[i] = "CON_CONNECT_WAIT"
    /\ \E i \in Nodes :
          /\ Last.before.st[i] # "CON_DOWN"
          /\ Last.after.st[i] = "CON_DOWN"

(***************************************************************************)
(* SIG_WATCHDOG_QUORUM_CHANGED (SpecQuorum)                                *)
(***************************************************************************)
\* the passes of sigusr1_interupt_processor() that found the quorum held
QuorumPasses == {h \in Processed : h.req.kind = "QUORUM"}

\* a sync cleared the quarantine flag of a backend
C32_QuarantineCleared ==
    \E h \in Processed :
        /\ h.req.kind = "SYNC"
        /\ \E i \in Nodes : h.before.qr[i] /\ ~h.after.qr[i]

\* C33 as stated: when WATCHDOG_QUORUM_CHANGED is processed and the quorum is
\* held, a failback request is issued for every backend with quarantined ==
\* true, whatever the state of the local watchdog node
C33_Original ==
    \A h \in QuorumPasses :
        h.req.report.send_failback_request = {i \in Nodes : h.before.qr[i]}

\* C33: when WATCHDOG_QUORUM_CHANGED is processed and the quorum is held, a
\* failback request (NODE_UP with UPDATE and WATCHDOG) is issued for every
\* backend that is quarantined and DOWN if the local watchdog node is the
\* coordinator, and for no backend otherwise
C33_FailbackByCoordinator ==
    \A h \in QuorumPasses :
        h.req.report.send_failback_request =
            IF h.req.report.wd_state = "WD_COORDINATOR"
            THEN {i \in Nodes : h.before.qr[i] /\ h.before.st[i] = "CON_DOWN"}
            ELSE {}

\* the coordinator asked for the failback of a quarantined backend
C33_Witness ==
    \E h \in QuorumPasses :
        /\ h.req.report.wd_state = "WD_COORDINATOR"
        /\ h.req.report.send_failback_request # {}
        /\ \A i \in h.req.report.send_failback_request : h.before.qr[i]

\* a standby node held the quorum and asked for no failback of its quarantined
\* backend
C33_StandbySendsNone ==
    \E h \in QuorumPasses :
        /\ h.req.report.wd_state = "WD_STANDBY"
        /\ \E i \in Nodes : h.before.qr[i] /\ h.before.st[i] = "CON_DOWN"
        /\ h.req.report.send_failback_request = {}

\* the coordinator left out a quarantined backend that is not DOWN
C33_AttachedLeftOut ==
    \E h \in QuorumPasses :
        /\ h.req.report.wd_state = "WD_COORDINATOR"
        /\ \E i \in Nodes : h.before.qr[i] /\ h.before.st[i] # "CON_DOWN"

(***************************************************************************)
(* The flags of the signal slot (SpecSignal)                               *)
(***************************************************************************)
\* a pass of sigusr1_interupt_processor() clears SIG_FAILOVER_INTERRUPT
InterruptServed ==
    signalFlags["SIG_FAILOVER_INTERRUPT"] /\ ~signalFlags'["SIG_FAILOVER_INTERRUPT"]

\* every flag that is set is cleared by a later pass
FlagsObserved == \A r \in User1SignalReason : signalFlags[r] ~> ~signalFlags[r]

C34_InterruptDropped ==
    /\ request_queue_head # request_queue_tail
    /\ to_signal = 0
    /\ \A r \in User1SignalReason : ~signalFlags[r]
    /\ ~sigusr1_request
    /\ pc = "sleeping"

(***************************************************************************)
(* Requests enqueued while the supervisor starts (SpecSignal)              *)
(***************************************************************************)
RequestWaits == request_queue_head # request_queue_tail

\* C36: every request that was enqueued is eventually dequeued, in whatever
\* state of the supervisor it was enqueued, without a later request
C36_EnqueuedIsDequeued == RequestWaits ~> ~RequestWaits

\* a request whose signal is served after the start of the supervisor is
\* dequeued
C36_DequeuedWhenStarted ==
    (/\ RequestWaits
     /\ processState # "INITIALIZING"
     /\ signalFlags["SIG_FAILOVER_INTERRUPT"]) ~> ~RequestWaits

\* the request was enqueued while the supervisor was INITIALIZING and its
\* signal was served then: the supervisor sleeps, no signal is pending, no
\* producer is about to signal, and the request is still in the queue
C36_RequestStuck ==
    /\ RequestWaits
    /\ enq_count = 1 /\ deq_log = << >>
    /\ reg_result = "true"
    /\ to_signal = 0 /\ ~sigusr1_request
    /\ ~signalFlags["SIG_FAILOVER_INTERRUPT"]
    /\ processState = "SLEEPING" /\ pc = "sleeping" /\ ~switching

(***************************************************************************)
(* Children that exit during a drain (SpecReapDrain)                       *)
(***************************************************************************)
\* the query workers that exited while switching was set and are not reaped
ExitedInDrain ==
    {k \in 1 .. Len(reap.zombies) :
        reap.zombies[k].kind = "child" /\ reap.zombies[k].switching}

\* the children reaper() collects in this step
Collected == {k \in 1 .. Len(reap'.log) : k > Len(reap.log)}

C35_ReplacedByFailover ==
    \E k \in ExitedInDrain :
        /\ ~switching
        /\ process_info[reap.zombies[k].idx].pid # reap.zombies[k].pid
        /\ ~process_info[reap.zombies[k].idx].need_to_restart

(***************************************************************************)
(* The primary after a NODE_DOWN request (SpecFailover)                    *)
(***************************************************************************)
NodeDownFinished == {h \in Finished : h.req.kind = "NODE_DOWN_REQUEST"}

\* C37: in streaming replication mode, after failover() has processed a
\* NODE_DOWN request, primary_node_id does not refer to a backend whose status
\* is DOWN
C37_PrimaryNotDown ==
    STREAM =>
        \A h \in NodeDownFinished :
            h.after.prim >= 0 => h.after.st[h.after.prim] # "CON_DOWN"

\* the same when the first node id of the request is the primary
C37_FirstNodeIsPrimary ==
    STREAM =>
        \A h \in NodeDownFinished :
            (h.before.prim = h.req.node_id[1] /\ h.finder # "ongoing" /\ h.after.prim >= 0)
                => h.after.st[h.after.prim] # "CON_DOWN"

\* the request names the primary after another node: both are set DOWN and
\* the primary is kept
C37_DownPrimaryKept ==
    /\ STREAM
    /\ \E h \in NodeDownFinished :
          /\ Len(h.req.node_id) = 2
          /\ h.before.prim = h.req.node_id[2]
          /\ h.before.st[h.before.prim] # "CON_DOWN"
          /\ h.after.st[h.before.prim] = "CON_DOWN"
          /\ h.after.prim = h.before.prim

(***************************************************************************)
(* Signals served inside a drain (Spec)                                    *)
(***************************************************************************)
\* CHECK_REQUEST run by pool_sleep() while failover() searches the primary
NestedCheckRequest == switching /\ pc = "search" /\ pc' = "search"

\* C38: while a drain is in progress, the signal work done inside it changes
\* neither the backend status, the quarantine flags, primary_node_id,
\* main_node_id nor the pids of the workers, dequeues nothing and leaves
\* switching set
C38_DrainIsolated ==
    [][NestedCheckRequest =>
          UNCHANGED <<backend_status, quarantine, primary_node_id,
                      main_node_id, process_info, request_queue_head,
                      switching, Req_switching>>]_vars

\* the nested failover() call returns at once: nothing is dequeued and
\* switching stays set
C38_NestedFailoverReturns ==
    [][NestedCheckRequest =>
          UNCHANGED <<request_queue_head, cur, switching, Req_switching>>]_vars

\* failover() set a backend DOWN for the NODE_DOWN request it is processing,
\* and a watchdog sync served during the primary search raised it again
C38_SyncInsideDrain ==
    /\ switching /\ pc = "search"
    /\ cur.kind = "NODE_DOWN_REQUEST"
    /\ \E i \in Nodes : nodes[i] /\ backend_status[i] = "CON_CONNECT_WAIT"


(***************************************************************************)
(* wd_failover_start() and wd_failover_end()                               *)
(***************************************************************************)
\* failover() has called wd_failover_start() for the request it dequeued
\* (every request but CLOSE_IDLE) and goes on to its validation
StartCalled == ValidationStep

\* the only call of wd_failover_end() is at the end of the loop body, which a
\* 'continue' of the validation never reaches
EndSkipped == pc' = "drain"

\* C39: every request for which failover() called wd_failover_start() reaches
\* the call of wd_failover_end() before the next request is dequeued or the
\* drain ends, rejected requests included
C39_StartThenEnd ==
    [][StartCalled => ~EndSkipped]_vars

\* wd_failover_start() was called for a NODE_UP of a valid backend, which the
\* validation is about to reject
C39_StartWithoutEnd ==
    /\ pc = "process"
    /\ cur.kind = "NODE_UP_REQUEST"
    /\ Valid(cur.node_id[1])
    /\ switching


(***************************************************************************)
(* The fields of the follow-primary lock                                   *)
(***************************************************************************)
\* pool_acquire_follow_primary_lock(block, true) returns true in this step
RemoteAcquired ==
    /\ LockStep({"acquire"}, TRUE)
    /\ last_op'.result = "acquired"

\* C40: in every state follow_primary_lock_held_remotely implies
\* follow_primary_count = 1, and follow_primary_lock_pending implies
\* follow_primary_count = 1 and not held remotely; right after a successful
\* pool_acquire_follow_primary_lock(remote_request = true) the lock is held
\* remotely with count 1
C40_LockWellFormed ==
    /\ [](follow_primary_lock_held_remotely => follow_primary_count = 1)
    /\ [](follow_primary_lock_pending =>
            follow_primary_count = 1 /\ ~follow_primary_lock_held_remotely)
    /\ [][RemoteAcquired =>
            follow_primary_lock_held_remotely' /\ follow_primary_count' = 1]_vars

\* the remote node has acquired the free lock and a local process sleeps for it
C40_Witness ==
    /\ last_op.op = "acquire"
    /\ last_op.remote_request
    /\ last_op.result = "acquired"
    /\ follow_primary_lock_held_remotely
    /\ follow_primary_count = 1
    /\ \E p \in LockProcs : lpc[p] = "sleeping"

\* a remote request is pending on a lock that a local process holds
C40_PendingOnLocalLock ==
    /\ follow_primary_lock_pending
    /\ follow_primary_count = 1
    /\ ~follow_primary_lock_held_remotely
    /\ Holders # {}
    /\ last_op.remote_request

=============================================================================
